---- MODULE Spec2Model ----
(***************************************************************************)
(* AutoDQ (Streamlit dashboard over Databricks validation results).        *)
(* Model of one browser session: the script of app.py runs top to bottom   *)
(* on every user interaction, over the session state (df, last_refresh,    *)
(* refresh settings, the DQ Action Tracker ledger) and the process-wide    *)
(* st.cache_data caches of the three remote fetch functions.               *)
(*                                                                         *)
(* A DataFrame is a sequence of records; the field idx is the row label    *)
(* (the pandas index).  Text values that the code concatenates are          *)
(* sequences of one-character strings, so that concatenation is \o.        *)
(***************************************************************************)
EXTENDS Integers, Sequences, FiniteSets, TLC

VARIABLES
    now,              \* wall clock, seconds (datetime.now())
    wh_main,          \* warehouse: version of gx_validation_results_cleaned_combined
    wh_failed,        \* warehouse: which rows of FailedUniverse the failed-records query returns
    cache_main,       \* st.cache_data entry of load_data_from_databricks (no ttl)
    cache_combined,   \* st.cache_data entry of fetch_combined_data (ttl=30)
    cache_failed,     \* st.cache_data entry of fetch_failed_records (ttl=600)
    df,               \* st.session_state["df"]
    last_refresh,     \* st.session_state.last_refresh
    refresh_mode,     \* st.session_state.refresh_mode
    refresh_interval, \* st.session_state.refresh_interval, minutes
    specific_refresh_datetime,  \* st.session_state.specific_refresh_datetime
    action_tracker,   \* st.session_state.action_tracker (the ledger)
    budget,           \* ledger edits (row edits, bulk applies) the run may still make
    last_op,          \* the interaction the last script run handled, with its inputs
    peer_tracker,     \* st.session_state.action_tracker of a second browser session
    environ,          \* os.environ and the configuration files of the working directory
    page_df,          \* the table a page or the preprocessing step is given
    outcome           \* what the last call or page render produced

vars == <<now, wh_main, wh_failed, cache_main, cache_combined, cache_failed,
          df, last_refresh, refresh_mode, refresh_interval,
          specific_refresh_datetime, action_tracker, budget, last_op,
          peer_tracker, environ, page_df, outcome>>

\* the variables no interaction with the dashboard session writes
bench == <<environ, page_df, outcome>>

----------------------------------------------------------------------------
(* Bounds of the model *)

MaxClock == 1200
MaxTrackerClock == 600
MaxEdits == 1
MaxTrackerEdits == 2
MaxVersion == 2
MaxShort == 2

----------------------------------------------------------------------------
(* Program constants *)

DQ_STATUS_OPTIONS ==
    <<"Open", "In Progress", "Waiting on Data Source", "Pending Review",
      "Resolved", "Verified", "Ignored", "Closed">>

StatusSet == {DQ_STATUS_OPTIONS[i] : i \in 1..Len(DQ_STATUS_OPTIONS)}

DEFAULT_REFRESH_INTERVAL == 10

TTL_COMBINED == 30

TTL_FAILED == 600

REQUIRED_TRACKER_COLS ==
    <<"Table", "Column", "Rule_Display_Name", "Failed_Row_ID", "Failed_Value",
      "Action_Status", "Assignee", "Notes">>

KEY_COLS == <<"Table", "Column", "Rule_Display_Name", "Failed_Row_ID">>

EDITABLE_COLS == {"Action_Status", "Assignee", "Notes"}

REFRESH_MODES == <<"Interval-Based", "Specific Date/Time", "Manual Only">>

----------------------------------------------------------------------------
(* Text *)

SEP == <<"|">>

NULL == <<"\\N">>

\* the missing value the .str methods return for a missing value (NaN)
NAN == <<"\\NaN">>

\* Series.astype(str): a string is itself, None becomes "None", NaN "nan"
AsStr(v) ==
    IF v = NULL THEN <<"N", "o", "n", "e">>
    ELSE IF v = NAN THEN <<"n", "a", "n">>
    ELSE v

Range(s) == {s[i] : i \in 1..Len(s)}

----------------------------------------------------------------------------
(* Rows the warehouse can hold for the failed-records query, in the order   *)
(* the query returns them.  Rows 1 and 2 share the composite key and differ *)
(* in Failed_Value; rows 1 and 3 have different keys whose "|"-joined text  *)
(* is the same; row 4 has no failed row id.                                 *)

FailedRow(t, c, r, i, v) ==
    [Table |-> t, Column |-> c, Rule_Display_Name |-> r,
     Failed_Row_ID |-> i, Failed_Value |-> v]

FailedUniverse ==
    << FailedRow(<<"a">>, <<"b", "|", "c">>, <<"r">>, <<"1">>, <<"x">>),
       FailedRow(<<"a">>, <<"b", "|", "c">>, <<"r">>, <<"1">>, <<"y">>),
       FailedRow(<<"a", "|", "b">>, <<"c">>, <<"r">>, <<"1">>, <<"x">>),
       FailedRow(<<"d">>, <<"c">>, <<"r">>, NULL, <<"x">>) >>

AssigneeNames == {"amy", "bob"}

NoteTexts == {"", "n"}

----------------------------------------------------------------------------
(* DataFrame helpers *)

EmptyFrame == << >>

\* DataFrame.empty
IsEmpty(frame) == Len(frame) = 0

\* DataFrame.index
IndexOf(frame) == {frame[i].idx : i \in 1..Len(frame)}

\* the composite key of a row: the values of its four key columns
KeyOf(row) == [k \in 1..Len(KEY_COLS) |-> row[KEY_COLS[k]]]

\* the composite keys of the rows of a frame
KeysOf(frame) == {KeyOf(frame[i]) : i \in 1..Len(frame)}

\* pd.read_sql: the rows of the result, labelled 0..n-1
RECURSIVE ReadSql(_, _, _)
ReadSql(members, pos, label) ==
    IF pos > Len(FailedUniverse) THEN << >>
    ELSE IF pos \in members
         THEN << [idx |-> label] @@ FailedUniverse[pos] >>
              \o ReadSql(members, pos + 1, label + 1)
         ELSE ReadSql(members, pos + 1, label)

FirstWithKeyAt(frame, i) ==
    \A j \in 1..(i - 1) : KeyOf(frame[j]) # KeyOf(frame[i])

\* frame[mask]: the rows at the positions of the mask, in order, labels kept
FilterRows(frame, mask) ==
    LET F[i \in 0..Len(frame)] ==
            IF i = 0 THEN << >>
            ELSE IF i \in mask THEN Append(F[i - 1], frame[i]) ELSE F[i - 1]
    IN F[Len(frame)]

\* mutant: no deduplication of the fetched rows
DropDuplicates_None(frame) == frame

\* df.drop_duplicates(subset=[four key columns], keep='first'): labels are kept
DropDuplicates(frame) ==
    FilterRows(frame, {i \in 1..Len(frame) : FirstWithKeyAt(frame, i)})

\* mutant: the concatenated rows take their label as Failed_Row_ID
ResetIndex_IntoRowId(frame) ==
    [i \in 1..Len(frame) |->
        [frame[i] EXCEPT !.idx = i - 1, !.Failed_Row_ID = <<"0">>]]

\* pd.concat([...], ignore_index=True): the rows relabelled 0..n-1
ResetIndex(frame) == [i \in 1..Len(frame) |-> [frame[i] EXCEPT !.idx = i - 1]]

----------------------------------------------------------------------------
(* DQ Action Tracker: the ledger operations of dq_tracker.render *)

\* failed_df["Action_Status"] = "Open"; failed_df["Assignee"] = ""; failed_df["Notes"] = ""
WithTrackingDefaults(frame) ==
    [i \in 1..Len(frame) |->
        [Action_Status |-> "Open", Assignee |-> "", Notes |-> ""] @@ frame[i]]

\* a missing required column is added as "", other columns are dropped
ensure_all_tracker_cols(frame) ==
    [i \in 1..Len(frame) |->
        [c \in Range(REQUIRED_TRACKER_COLS) \cup {"idx"} |->
            IF c \in DOMAIN frame[i] THEN frame[i][c] ELSE ""]]

\* the deduplication key of the import: the key columns as text, joined by "|"
KeyText(row) ==
    AsStr(row.Table) \o SEP \o AsStr(row.Column) \o SEP
        \o AsStr(row.Rule_Display_Name) \o SEP \o AsStr(row.Failed_Row_ID)

\* mutant: every fetched record counts as new
NewRecords_Unfiltered(tracker, failed_df) == failed_df

\* failed_df[~new_keys.isin(existing_keys)]
NewRecords(tracker, failed_df) ==
    LET existing_keys == {KeyText(tracker[i]) : i \in 1..Len(tracker)}
        Keep(i) == KeyText(failed_df[i]) \notin existing_keys
    IN FilterRows(failed_df, {i \in 1..Len(failed_df) : Keep(i)})

\* mutant: the fetched records replace the ledger
Imported_Replacing(tracker, fetched) ==
    IF IsEmpty(fetched) THEN tracker
    ELSE ensure_all_tracker_cols(WithTrackingDefaults(fetched))

\* the ledger after "Load Failed Records" has fetched `fetched`
Imported(tracker, fetched) ==
    IF IsEmpty(fetched) THEN tracker
    ELSE LET failed_df == ensure_all_tracker_cols(WithTrackingDefaults(fetched))
         IN IF ~IsEmpty(tracker)
            THEN LET new_records == NewRecords(tracker, failed_df)
                 IN IF ~IsEmpty(new_records)
                    THEN ResetIndex(tracker \o new_records)
                    ELSE tracker
            ELSE failed_df

\* the options of the table filter: sorted(tracker["Table"].dropna().unique())
TableOptions(tracker) == {tracker[i].Table : i \in 1..Len(tracker)} \ {NULL}

\* the options of the assignee filter
AssigneeOptions(tracker) == {tracker[i].Assignee : i \in 1..Len(tracker)}

\* the status selections of the filter the model draws from
StatusFilterChoices == {StatusSet} \cup {{s} : s \in StatusSet}

\* filtered_df: the rows passing the three filters; an empty assignee
\* selection filters nothing
Filtered(tracker, status_filter, table_filter, assignee_filter) ==
    LET Keep(i) ==
            /\ tracker[i].Action_Status \in status_filter
            /\ tracker[i].Table \in table_filter
            /\ (assignee_filter # {} => tracker[i].Assignee \in assignee_filter)
    IN FilterRows(tracker, {i \in 1..Len(tracker) : Keep(i)})

\* every filtered_df the user can bring up over the ledger
FilteredViews(tracker) ==
    {Filtered(tracker, sf, tf, af) :
        sf \in StatusFilterChoices,
        tf \in SUBSET TableOptions(tracker),
        af \in SUBSET AssigneeOptions(tracker)}

\* mutant: the mask is taken by row position, not by row label
SetWhereLabel_ByPosition(tracker, labels, col, value) ==
    [i \in 1..Len(tracker) |->
        IF (i - 1) \in labels
        THEN [tracker[i] EXCEPT ![col] = value]
        ELSE tracker[i]]

\* tracker.loc[mask, col] = value, mask = tracker.index.isin(labels)
SetWhereLabel(tracker, labels, col, value) ==
    [i \in 1..Len(tracker) |->
        IF tracker[i].idx \in labels
        THEN [tracker[i] EXCEPT ![col] = value]
        ELSE tracker[i]]

\* the values the bulk "Set Status" selectbox can hold
BulkStatusChoices == StatusSet

\* the values the bulk "Assign To" selection can yield
BulkAssigneeChoices == {""} \cup AssigneeNames

\* "Apply to Selected"
BulkApplied(tracker, filtered_df, bulk_status, bulk_assignee) ==
    IF IsEmpty(filtered_df) THEN tracker
    ELSE LET labels == IndexOf(filtered_df)
             s1 == IF bulk_status # ""
                   THEN SetWhereLabel(tracker, labels, "Action_Status", bulk_status)
                   ELSE tracker
         IN IF bulk_assignee # ""
            THEN SetWhereLabel(s1, labels, "Assignee", bulk_assignee)
            ELSE s1

\* mutant: Closed entries are purged as well
ClearedResolved_AndClosed(tracker) ==
    LET Keep(i) == tracker[i].Action_Status \notin {"Resolved", "Closed"}
    IN FilterRows(tracker, {i \in 1..Len(tracker) : Keep(i)})

\* "Clear Resolved": tracker[~resolved_mask], labels kept
ClearedResolved(tracker) ==
    LET Keep(i) == tracker[i].Action_Status # "Resolved"
    IN FilterRows(tracker, {i \in 1..Len(tracker) : Keep(i)})

\* mutant: the status cell of the editor may be left empty
CellChoices_StatusOptional(col) ==
    IF col = "Action_Status" THEN StatusSet \cup {""}
    ELSE IF col = "Assignee" THEN {""} \cup AssigneeNames
    ELSE NoteTexts

\* what the data editor lets the user type into an editable cell
CellChoices(col) ==
    IF col = "Action_Status" THEN StatusSet
    ELSE IF col = "Assignee" THEN {""} \cup AssigneeNames
    ELSE NoteTexts

\* edited_df: filtered_df with one editable cell changed
EditedFrame(filtered_df, pos, col, value) ==
    [filtered_df EXCEPT ![pos] = [@ EXCEPT ![col] = value]]

\* edited_df.loc[idx, col]
CellAt(frame, label, col) ==
    LET i == CHOOSE j \in 1..Len(frame) : frame[j].idx = label IN frame[i][col]

\* mutant: a Closed entry keeps its status
EditsApplied_NoReopen(tracker, filtered_df, edited_df) ==
    IF edited_df = filtered_df THEN tracker
    ELSE [i \in 1..Len(tracker) |->
            IF tracker[i].idx \in IndexOf(edited_df)
            THEN [tracker[i] EXCEPT
                    !.Action_Status =
                        IF @ = "Closed" THEN @
                        ELSE CellAt(edited_df, tracker[i].idx, "Action_Status"),
                    !.Assignee = CellAt(edited_df, tracker[i].idx, "Assignee"),
                    !.Notes = CellAt(edited_df, tracker[i].idx, "Notes")]
            ELSE tracker[i]]

\* the write-back of the editor's result into the ledger
EditsApplied(tracker, filtered_df, edited_df) ==
    IF edited_df = filtered_df THEN tracker
    ELSE [i \in 1..Len(tracker) |->
            IF tracker[i].idx \in IndexOf(edited_df)
            THEN [tracker[i] EXCEPT
                    !.Action_Status = CellAt(edited_df, tracker[i].idx, "Action_Status"),
                    !.Assignee = CellAt(edited_df, tracker[i].idx, "Assignee"),
                    !.Notes = CellAt(edited_df, tracker[i].idx, "Notes")]
            ELSE tracker[i]]

----------------------------------------------------------------------------
(* st.cache_data: one entry per fetch function (none takes arguments) *)

NoEntry == [has |-> FALSE, at |-> 0, val |-> 0]

\* an entry without ttl never expires; one with a ttl is served while
\* less than ttl seconds old
Fresh(entry, ttl, t) == entry.has /\ (ttl = 0 \/ t < entry.at + ttl)

\* a call of a cached function at time t: the stored value on a hit,
\* otherwise the function body runs (its value is `computed`) and is stored
CachedCall(entry, ttl, t, computed) ==
    IF Fresh(entry, ttl, t)
    THEN [val |-> entry.val, entry |-> entry, remote |-> FALSE]
    ELSE [val |-> computed,
          entry |-> [has |-> TRUE, at |-> t, val |-> computed],
          remote |-> TRUE]

\* load_data_from_databricks: @st.cache_data without ttl
NO_TTL == 0

\* the body of load_data_from_databricks: the table, or an empty frame
\* (version 0) when the connection or the query fails
LoadBody(ok) == IF ok THEN wh_main ELSE 0

load_data_from_databricks(entry, t, ok) == CachedCall(entry, NO_TTL, t, LoadBody(ok))

\* the body of fetch_combined_data
CombinedBody(ok) == IF ok THEN wh_main ELSE 0

fetch_combined_data(entry, t, ok) == CachedCall(entry, TTL_COMBINED, t, CombinedBody(ok))

\* the body of fetch_failed_records
FailedBody(ok) ==
    IF ok THEN DropDuplicates(ReadSql(wh_failed, 1, 0)) ELSE EmptyFrame

fetch_failed_records(entry, t, ok) == CachedCall(entry, TTL_FAILED, t, FailedBody(ok))

----------------------------------------------------------------------------
(* app.py: what every script run does before it renders the page *)

NoDf == [present |-> FALSE, v |-> 0]

\* specific_refresh_datetime = None
NoTime == [set |-> FALSE, at |-> 0]

\* the session state the top of the script reads and writes, with the
\* loader's cache entry; remote and hit tell whether the run queried the
\* warehouse for the table and whether the cache answered a call
Session ==
    [df |-> df, last_refresh |-> last_refresh, refresh_mode |-> refresh_mode,
     refresh_interval |-> refresh_interval,
     specific_refresh_datetime |-> specific_refresh_datetime,
     entry |-> cache_main, remote |-> FALSE, hit |-> FALSE]

\* mutant: the interval-based refresh is due when the interval has passed
NeedRefresh_AtInterval(s, t) ==
    IF s.refresh_mode = "Interval-Based"
    THEN t - s.last_refresh >= s.refresh_interval * 60
    ELSE IF s.refresh_mode = "Specific Date/Time"
         THEN /\ s.specific_refresh_datetime.set
              /\ t >= s.specific_refresh_datetime.at
              /\ s.last_refresh < s.specific_refresh_datetime.at
         ELSE FALSE

\* "Auto Refresh Logic"
NeedRefresh(s, t) ==
    IF s.refresh_mode = "Interval-Based"
    THEN t - s.last_refresh > s.refresh_interval * 60
    ELSE IF s.refresh_mode = "Specific Date/Time"
         THEN /\ s.specific_refresh_datetime.set
              /\ t >= s.specific_refresh_datetime.at
              /\ s.last_refresh < s.specific_refresh_datetime.at
         ELSE FALSE

\* st.session_state["df"] = load_data_from_databricks(); last_refresh = now
Refreshed(s, t, ok) ==
    LET r == load_data_from_databricks(s.entry, t, ok)
    IN [s EXCEPT !.df = [present |-> TRUE, v |-> r.val],
                 !.last_refresh = t,
                 !.entry = r.entry,
                 !.remote = s.remote \/ r.remote,
                 !.hit = s.hit \/ ~r.remote]

\* "Load Data": the session after the top of the script has run at time t
RunTop(s, t, ok) ==
    IF ~s.df.present \/ NeedRefresh(s, t) THEN Refreshed(s, t, ok) ELSE s

\* settings.py "Reset to Defaults"
DefaultsReset(s) ==
    [s EXCEPT !.refresh_mode = "Interval-Based",
              !.refresh_interval = 10,
              !.specific_refresh_datetime = NoTime]

\* settings.py "Clear All Data" followed by the default_states of the next
\* script run (started at time t)
AllCleared(s, t) ==
    [s EXCEPT !.df = NoDf,
              !.last_refresh = t,
              !.refresh_mode = "Interval-Based",
              !.refresh_interval = DEFAULT_REFRESH_INTERVAL,
              !.specific_refresh_datetime = NoTime]

\* the session variables take the values of s
Store(s) ==
    /\ df' = s.df
    /\ last_refresh' = s.last_refresh
    /\ refresh_mode' = s.refresh_mode
    /\ refresh_interval' = s.refresh_interval
    /\ specific_refresh_datetime' = s.specific_refresh_datetime
    /\ cache_main' = s.entry

\* a remote call may fail or succeed; a call the cache answers has one outcome
CallOutcomes(entry, ttl, t) == IF Fresh(entry, ttl, t) THEN {TRUE} ELSE BOOLEAN

TopOutcomes(s, t) ==
    IF ~s.df.present \/ NeedRefresh(s, t)
    THEN CallOutcomes(s.entry, NO_TTL, t) ELSE {TRUE}

CountResolved(tracker) ==
    Cardinality({i \in 1..Len(tracker) : tracker[i].Action_Status = "Resolved"})

\* the record of an interaction: its name and inputs, which fetch functions
\* queried the warehouse (remote) or were answered by the cache (cached), and
\* the size of the ledger it found
NoOp ==
    [op |-> "", remote |-> {}, cached |-> {}, fetched |-> EmptyFrame,
     repeated |-> FALSE, sel |-> {}, row |-> 0, col |-> "", val |-> "",
     old |-> "", status |-> "", assignee |-> "", size |-> 0, resolved |-> 0]

\* the last interaction was a bulk apply of Resolved on a ledger that held
\* no Resolved entry
JustResolved ==
    /\ last_op.op = "BulkApply"
    /\ last_op.status = "Resolved"
    /\ last_op.resolved = 0

Op(name, s) ==
    [NoOp EXCEPT !.op = name,
                 !.remote = IF s.remote THEN {"main"} ELSE {},
                 !.cached = IF s.hit THEN {"main"} ELSE {},
                 !.size = Len(action_tracker),
                 !.resolved = CountResolved(action_tracker)]

----------------------------------------------------------------------------
(* Session state is kept per browser session; the caches are per process *)

\* mutant: one ledger for the whole process
Ledgers_Global(sid, new) == [A |-> new, B |-> new]

\* the ledgers of the two sessions after session sid has stored `new` in
\* its st.session_state.action_tracker
Ledgers(sid, new) ==
    [A |-> IF sid = "A" THEN new ELSE action_tracker,
     B |-> IF sid = "B" THEN new ELSE peer_tracker]

\* st.session_state.action_tracker = new, in session sid
SetLedger(sid, new) ==
    /\ action_tracker' = Ledgers(sid, new).A
    /\ peer_tracker' = Ledgers(sid, new).B

\* no second session, no call made, no table handed to a page
NoEnviron == [runtime |-> FALSE]

NoFrame == [columns |-> {}, rows |-> << >>]

NoOutcome == [call |-> ""]

Quiet ==
    /\ peer_tracker = EmptyFrame
    /\ environ = NoEnviron
    /\ page_df = NoFrame
    /\ outcome = NoOutcome

----------------------------------------------------------------------------
(* Initial state: a started server, a browser session that has not run the  *)
(* script yet                                                               *)

\* the contents of the warehouse the model draws from
WhFailedChoices == {{3}, {1, 2, 3}, {2, 4}}

Init ==
    /\ now = 0
    /\ wh_main = 1
    /\ wh_failed \in WhFailedChoices
    /\ cache_main = NoEntry
    /\ cache_combined = NoEntry
    /\ cache_failed = [NoEntry EXCEPT !.val = EmptyFrame]
    /\ df = NoDf
    /\ last_refresh = 0
    /\ refresh_mode = "Interval-Based"
    /\ refresh_interval = DEFAULT_REFRESH_INTERVAL
    /\ specific_refresh_datetime = NoTime
    /\ action_tracker = EmptyFrame
    /\ budget = MaxEdits
    /\ last_op = NoOp
    /\ Quiet

warehouse == <<wh_main, wh_failed>>

----------------------------------------------------------------------------
(* One action per user interaction: the script run it triggers, from the   *)
(* top of app.py through the handler of the page, and the rerun the        *)
(* handler asks for                                                         *)

\* a run without a button press: first page load, page change, filter change
Render ==
    \E ok \in TopOutcomes(Session, now) :
        LET s == RunTop(Session, now, ok)
        IN /\ Store(s)
           /\ last_op' = Op("Render", s)
           /\ UNCHANGED <<now, warehouse, cache_combined, cache_failed,
                          action_tracker, budget, peer_tracker, bench>>

\* "Refresh from Databricks" (any page but the first)
ManualRefresh ==
    /\ df.present
    /\ \E ok \in TopOutcomes(Session, now), ok2 \in BOOLEAN :
        LET s1 == RunTop(Session, now, ok)
            s == Refreshed(s1, now, ok2)
        IN /\ ok2 \in CallOutcomes(s1.entry, NO_TTL, now)
           /\ Store(s)
           /\ last_op' = Op("ManualRefresh", s)
           /\ UNCHANGED <<now, warehouse, cache_combined, cache_failed,
                          action_tracker, budget, peer_tracker, bench>>

\* Settings: "Reset to Defaults", then the rerun
ResetToDefaults ==
    /\ df.present
    /\ \E ok \in TopOutcomes(Session, now), ok2 \in BOOLEAN :
        LET s1 == DefaultsReset(RunTop(Session, now, ok))
            s == RunTop(s1, now, ok2)
        IN /\ ok2 \in TopOutcomes(s1, now)
           /\ Store(s)
           /\ last_op' = Op("ResetToDefaults", s)
           /\ UNCHANGED <<now, warehouse, cache_combined, cache_failed,
                          action_tracker, budget, peer_tracker, bench>>

\* Settings: "Clear All Data" deletes every key of the session state; the
\* rerun starts from the defaults of app.py
ClearAllData ==
    /\ df.present
    /\ \E ok \in TopOutcomes(Session, now), ok2 \in BOOLEAN :
        LET s1 == AllCleared(RunTop(Session, now, ok), now)
            s == RunTop(s1, now, ok2)
        IN /\ ok2 \in TopOutcomes(s1, now)
           /\ Store(s)
           /\ SetLedger("A", EmptyFrame)
           /\ last_op' = Op("ClearAllData", s)
           /\ UNCHANGED <<now, warehouse, cache_combined, cache_failed, budget, bench>>

\* Tracker: "Load Failed Records"
Import ==
    /\ df.present
    /\ \E ok \in TopOutcomes(Session, now),
          okf \in CallOutcomes(cache_failed, TTL_FAILED, now) :
        LET s == RunTop(Session, now, ok)
            r == fetch_failed_records(cache_failed, now, okf)
        IN /\ Store(s)
           /\ cache_failed' = r.entry
           /\ SetLedger("A", Imported(action_tracker, r.val))
           /\ last_op' = [Op("Import", s) EXCEPT
                            !.fetched = r.val,
                            !.repeated = last_op.op = "Import" /\ last_op.fetched = r.val,
                            !.remote = @ \cup (IF r.remote THEN {"failed"} ELSE {}),
                            !.cached = @ \cup (IF r.remote THEN {} ELSE {"failed"})]
           /\ UNCHANGED <<now, warehouse, cache_combined, budget, bench>>

\* Tracker: "Apply to Selected" over the filtered rows
BulkApply ==
    /\ df.present
    /\ ~IsEmpty(action_tracker)
    /\ budget > 0
    /\ \E ok \in TopOutcomes(Session, now),
          filtered_df \in FilteredViews(action_tracker),
          bulk_status \in BulkStatusChoices,
          bulk_assignee \in BulkAssigneeChoices :
        LET s == RunTop(Session, now, ok)
        IN /\ Store(s)
           /\ SetLedger("A", BulkApplied(action_tracker, filtered_df, bulk_status, bulk_assignee))
           /\ budget' = budget - 1
           /\ last_op' = [Op("BulkApply", s) EXCEPT
                            !.sel = KeysOf(filtered_df),
                            !.status = bulk_status,
                            !.assignee = bulk_assignee]
           /\ UNCHANGED <<now, warehouse, cache_combined, cache_failed, bench>>

\* Tracker: "Clear Resolved"
ClearResolved ==
    /\ df.present
    /\ ~IsEmpty(action_tracker)
    /\ \E ok \in TopOutcomes(Session, now) :
        LET s == RunTop(Session, now, ok)
        IN /\ Store(s)
           /\ SetLedger("A", ClearedResolved(action_tracker))
           /\ last_op' = [Op("ClearResolved", s) EXCEPT
                            !.sel = IF JustResolved THEN last_op.sel ELSE {}]
           /\ UNCHANGED <<now, warehouse, cache_combined, cache_failed, budget, bench>>

\* Tracker: one cell of the data editor is changed
RowEdit ==
    /\ df.present
    /\ ~IsEmpty(action_tracker)
    /\ budget > 0
    /\ \E ok \in TopOutcomes(Session, now),
          filtered_df \in FilteredViews(action_tracker) :
        \E pos \in 1..Len(filtered_df), col \in EDITABLE_COLS :
          \E value \in CellChoices(col) \ {filtered_df[pos][col]} :
            LET s == RunTop(Session, now, ok)
                edited_df == EditedFrame(filtered_df, pos, col, value)
            IN /\ Store(s)
               /\ SetLedger("A", EditsApplied(action_tracker, filtered_df, edited_df))
               /\ budget' = budget - 1
               /\ last_op' = [Op("RowEdit", s) EXCEPT
                                !.sel = KeysOf(filtered_df),
                                !.row = filtered_df[pos].idx,
                                !.col = col,
                                !.val = value,
                                !.old = filtered_df[pos][col]]
               /\ UNCHANGED <<now, warehouse, cache_combined, cache_failed, bench>>

\* Validation Dashboard: the page fetches its combined table
DashboardRender ==
    /\ df.present
    /\ \E ok \in TopOutcomes(Session, now),
          okc \in CallOutcomes(cache_combined, TTL_COMBINED, now) :
        LET s == RunTop(Session, now, ok)
            r == fetch_combined_data(cache_combined, now, okc)
        IN /\ Store(s)
           /\ cache_combined' = r.entry
           /\ last_op' = [Op("DashboardRender", s) EXCEPT
                            !.remote = @ \cup (IF r.remote THEN {"combined"} ELSE {}),
                            !.cached = @ \cup (IF r.remote THEN {} ELSE {"combined"})]
           /\ UNCHANGED <<now, warehouse, cache_failed, action_tracker, budget, peer_tracker, bench>>

\* Settings: another refresh mode is selected; in the Specific Date/Time
\* mode the page stores the time its input shows (the time of the run)
SetRefreshMode ==
    /\ df.present
    /\ \E ok \in TopOutcomes(Session, now), m \in Range(REFRESH_MODES) \ {refresh_mode} :
        LET s == [RunTop(Session, now, ok) EXCEPT
                    !.refresh_mode = m,
                    !.specific_refresh_datetime =
                        IF m = "Specific Date/Time"
                        THEN [set |-> TRUE, at |-> now] ELSE @]
        IN /\ Store(s)
           /\ last_op' = Op("SetRefreshMode", s)
           /\ UNCHANGED <<now, warehouse, cache_combined, cache_failed,
                          action_tracker, budget, peer_tracker, bench>>

----------------------------------------------------------------------------
(* The environment *)

\* time passes
Tick(d) ==
    /\ now + d <= MaxClock
    /\ now' = now + d
    /\ last_op' = [NoOp EXCEPT !.op = "Tick"]
    /\ UNCHANGED <<warehouse, cache_main, cache_combined, cache_failed, df,
                   last_refresh, refresh_mode, refresh_interval,
                   specific_refresh_datetime, action_tracker, budget, peer_tracker, bench>>

TickLong == Tick(TTL_FAILED)

TickShort == (now % TTL_FAILED) < MaxShort * TTL_COMBINED /\ Tick(TTL_COMBINED)

TickTracker == now + TTL_FAILED <= MaxTrackerClock /\ Tick(TTL_FAILED)

\* the rules engine writes other failed rows to the warehouse
FailedRowsChange ==
    /\ \E w \in WhFailedChoices \ {wh_failed} : wh_failed' = w
    /\ last_op' = [NoOp EXCEPT !.op = "FailedRowsChange"]
    /\ UNCHANGED <<now, wh_main, cache_main, cache_combined, cache_failed, df,
                   last_refresh, refresh_mode, refresh_interval,
                   specific_refresh_datetime, action_tracker, budget, peer_tracker, bench>>

\* the rules engine rewrites the validation results table
MainTableChange ==
    /\ wh_main < MaxVersion
    /\ wh_main' = wh_main + 1
    /\ last_op' = [NoOp EXCEPT !.op = "MainTableChange"]
    /\ UNCHANGED <<now, wh_failed, cache_main, cache_combined, cache_failed, df,
                   last_refresh, refresh_mode, refresh_interval,
                   specific_refresh_datetime, action_tracker, budget, peer_tracker, bench>>

----------------------------------------------------------------------------
(* Specifications *)

\* a session working on the DQ Action Tracker while the warehouse changes
Next ==
    \/ Render
    \/ ManualRefresh
    \/ ResetToDefaults
    \/ ClearAllData
    \/ Import
    \/ BulkApply
    \/ ClearResolved
    \/ RowEdit
    \/ TickTracker
    \/ FailedRowsChange

Spec == Init /\ [][Next]_vars

\* a session that has loaded its table and edits the ledger, over a
\* warehouse that does not change meanwhile
InitTracker ==
    /\ now = 0
    /\ wh_main = 1
    /\ wh_failed \in WhFailedChoices
    /\ cache_main = [has |-> TRUE, at |-> 0, val |-> 1]
    /\ cache_combined = NoEntry
    /\ cache_failed = [NoEntry EXCEPT !.val = EmptyFrame]
    /\ df = [present |-> TRUE, v |-> 1]
    /\ last_refresh = 0
    /\ refresh_mode = "Interval-Based"
    /\ refresh_interval = DEFAULT_REFRESH_INTERVAL
    /\ specific_refresh_datetime = NoTime
    /\ action_tracker = EmptyFrame
    /\ budget = MaxTrackerEdits
    /\ last_op = NoOp
    /\ Quiet

NextTracker ==
    \/ Import
    \/ BulkApply
    \/ ClearResolved
    \/ RowEdit

SpecTracker == InitTracker /\ [][NextTracker]_vars

\* a session loading and refreshing the validation tables
InitCache == Init /\ wh_failed = {3}

NextCache ==
    \/ Render
    \/ ManualRefresh
    \/ DashboardRender
    \/ SetRefreshMode
    \/ TickLong
    \/ TickShort
    \/ MainTableChange

SpecCache == InitCache /\ [][NextCache]_vars

----------------------------------------------------------------------------
(* Properties of the ledger *)

\* no two rows of the frame have the same composite key
NoDuplicateKeys(frame) ==
    \A i, j \in 1..Len(frame) : i # j => KeyOf(frame[i]) # KeyOf(frame[j])

\* two rows agree on every tracker column (the row label apart)
SameEntry(a, b) == \A c \in Range(REQUIRED_TRACKER_COLS) : a[c] = b[c]

\* C1: an import that fetches the same record set as the import just before
\* it adds nothing: the ledger keeps its size and holds no duplicate key.
C1_SecondImportAddsNothing ==
    (last_op.op = "Import" /\ last_op.repeated) =>
        /\ Len(action_tracker) = last_op.size
        /\ NoDuplicateKeys(action_tracker)

C1_Witness ==
    /\ last_op.op = "Import"
    /\ last_op.repeated
    /\ ~IsEmpty(last_op.fetched)
    /\ Len(action_tracker) > Len(last_op.fetched)

\* C2: in every reachable state no two ledger entries have the same
\* composite key (Table, Column, Rule_Display_Name, Failed_Row_ID).
C2_KeysUnique == NoDuplicateKeys(action_tracker)

C2_Witness ==
    /\ last_op.op = "Import"
    /\ Len(action_tracker) = 3
    /\ last_op.size = 2

\* C3: an import appends exactly the fetched records whose composite key is
\* not in the ledger, as Open with empty Assignee and Notes, and keeps every
\* earlier entry with its fields unchanged.
C3_ImportAppendsExactlyNewKeys ==
    [][last_op'.op = "Import" =>
        LET old == action_tracker
            new == action_tracker'
            f == last_op'.fetched
            fresh == {i \in 1..Len(f) : KeyOf(f[i]) \notin KeysOf(old)}
        IN /\ Len(new) = Len(old) + Cardinality(fresh)
           /\ \A i \in 1..Len(old) : SameEntry(new[i], old[i])
           /\ \A i \in fresh :
                \E j \in (Len(old) + 1)..Len(new) :
                    /\ KeyOf(new[j]) = KeyOf(f[i])
                    /\ new[j].Failed_Value = f[i].Failed_Value
                    /\ new[j].Action_Status = "Open"
                    /\ new[j].Assignee = ""
                    /\ new[j].Notes = ""]_vars

\* C4: when no entry is Resolved, a bulk apply of Resolved on a filtered
\* subset of N entries followed by Clear Resolved removes exactly those N
\* entries and leaves the others as they were.
C4_ResolveThenClearRemovesSubset ==
    [][(JustResolved /\ last_op'.op = "ClearResolved") =>
        /\ Len(action_tracker') = Len(action_tracker) - Cardinality(last_op.sel)
        /\ KeysOf(action_tracker') = KeysOf(action_tracker) \ last_op.sel
        /\ \A j \in 1..Len(action_tracker') :
             \E i \in 1..Len(action_tracker) : action_tracker'[j] = action_tracker[i]]_vars

C4_Witness ==
    /\ last_op.op = "ClearResolved"
    /\ last_op.sel # {}
    /\ Cardinality(last_op.sel) < last_op.size
    /\ Len(action_tracker) = last_op.size - Cardinality(last_op.sel)

\* C5: a bulk apply overwrites the target fields of every entry of the
\* filtered subset and changes no entry outside it, whatever the row labels.
C5_BulkApplyTouchesSubsetOnly ==
    [][last_op'.op = "BulkApply" =>
        /\ Len(action_tracker') = Len(action_tracker)
        /\ \A i \in 1..Len(action_tracker) :
             IF KeyOf(action_tracker[i]) \in last_op'.sel
             THEN /\ action_tracker'[i].Action_Status = last_op'.status
                  /\ action_tracker'[i].Assignee =
                        IF last_op'.assignee # "" THEN last_op'.assignee
                        ELSE action_tracker[i].Assignee
                  /\ action_tracker'[i].Notes = action_tracker[i].Notes
                  /\ KeyOf(action_tracker'[i]) = KeyOf(action_tracker[i])
             ELSE action_tracker'[i] = action_tracker[i]]_vars

C5_Witness ==
    /\ last_op.op = "BulkApply"
    /\ last_op.sel # {}
    /\ last_op.sel # KeysOf(action_tracker)
    /\ IndexOf(action_tracker) # 0..(Len(action_tracker) - 1)
    /\ \E i \in 1..Len(action_tracker) :
         /\ KeyOf(action_tracker[i]) \notin last_op.sel
         /\ action_tracker[i].Action_Status # last_op.status

\* C6: a bulk apply can give an assignee without giving a status: for every
\* filtered subset and assignee some bulk apply sets the assignee and leaves
\* every Action_Status of the subset as it was.
C6_AssignWithoutStatus ==
    \A filtered_df \in FilteredViews(action_tracker), a \in AssigneeNames :
        \E bulk_status \in BulkStatusChoices :
            LET new == BulkApplied(action_tracker, filtered_df, bulk_status, a)
            IN \A i \in 1..Len(action_tracker) :
                 new[i].Action_Status = action_tracker[i].Action_Status

\* the ledger entry that carries the row label
EntryAt(tracker, label) ==
    tracker[CHOOSE i \in 1..Len(tracker) : tracker[i].idx = label]

C8_RemovedOnlyByClearResolved ==
    [][\A i \in 1..Len(action_tracker) :
          KeyOf(action_tracker[i]) \notin KeysOf(action_tracker') =>
              /\ last_op'.op = "ClearResolved"
              /\ action_tracker[i].Action_Status = "Resolved"]_vars

\* C8: a ledger entry is removed only by Clear Resolved when its status is
\* Resolved, or by the Clear All Data action of the settings page, which
\* removes every entry.
C8_RemovedOnlyByClearActions ==
    [][\A i \in 1..Len(action_tracker) :
          KeyOf(action_tracker[i]) \notin KeysOf(action_tracker') =>
              \/ /\ last_op'.op = "ClearResolved"
                 /\ action_tracker[i].Action_Status = "Resolved"
              \/ last_op'.op = "ClearAllData"]_vars

C8_Witness ==
    /\ last_op.op = "ClearAllData"
    /\ last_op.size > last_op.resolved
    /\ IsEmpty(action_tracker)

----------------------------------------------------------------------------
(* Properties of the caches *)

\* C9: a manual refresh queries the warehouse again and leaves the current
\* warehouse table, or the empty table of a failed query, in the session.
C9_ManualRefreshBypassesCache ==
    last_op.op = "ManualRefresh" =>
        /\ "main" \in last_op.remote
        /\ df.v \in {wh_main, 0}

\* the cache entry of a fetch function
EntryOf(fetch) ==
    IF fetch = "main" THEN cache_main
    ELSE IF fetch = "combined" THEN cache_combined
    ELSE cache_failed

\* C10: a result the cache serves is younger than the longest cache window
\* of the application, whichever fetch function it belongs to.
C10_CachedResultsExpire ==
    \A fetch \in last_op.cached : now - EntryOf(fetch).at < TTL_FAILED

----------------------------------------------------------------------------
(* environment_detector.py: which connection the process environment gives *)

\* the scheme prefix str.replace removes from the host
SCHEME == "https://"

\* values of DATABRICKS_HOST: unset or empty, a host name, a URL, a bare scheme
HostValues == {<< >>, <<"h">>, <<SCHEME, "h">>, <<SCHEME>>}

\* values of DATABRICKS_TOKEN and DATABRICKS_HTTP_PATH: unset or empty, or set
SecretValues == {<< >>, <<"s">>}

\* the environments of a server process: the platform indicators, the two
\* configuration files of the working directory, and the three variables
\* as os.getenv(var, "") reads them (after load_dotenv)
Environments ==
    [runtime : BOOLEAN, lakehouse : BOOLEAN,
     env_file : BOOLEAN, config_file : BOOLEAN,
     DATABRICKS_HOST : HostValues,
     DATABRICKS_TOKEN : SecretValues,
     DATABRICKS_HTTP_PATH : SecretValues]

\* str.replace(SCHEME, ""): every occurrence of the scheme is removed
RECURSIVE WithoutScheme(_)
WithoutScheme(text) ==
    IF text = << >> THEN << >>
    ELSE IF Head(text) = SCHEME THEN WithoutScheme(Tail(text))
         ELSE <<Head(text)>> \o WithoutScheme(Tail(text))

\* the truth value Python gives a string
Truthy(text) == text # << >>

is_databricks_runtime(e) == e.runtime

is_databricks_lakehouse_app(e) == e.lakehouse

has_client_config(e) == e.env_file \/ e.config_file

load_env_config(e) ==
    [DATABRICKS_HOST |-> e.DATABRICKS_HOST,
     DATABRICKS_TOKEN |-> e.DATABRICKS_TOKEN,
     DATABRICKS_HTTP_PATH |-> e.DATABRICKS_HTTP_PATH]

is_fully_configured(env_config) ==
    /\ Truthy(env_config.DATABRICKS_HOST)
    /\ Truthy(env_config.DATABRICKS_TOKEN)
    /\ Truthy(env_config.DATABRICKS_HTTP_PATH)

detect_environment(e) ==
    IF is_databricks_runtime(e)
    THEN [environment_type |-> "databricks_runtime",
          requires_setup |-> FALSE, auto_authentication |-> TRUE]
    ELSE IF is_databricks_lakehouse_app(e)
    THEN [environment_type |-> "databricks_lakehouse_app",
          requires_setup |-> FALSE, auto_authentication |-> TRUE]
    ELSE IF has_client_config(e)
    THEN [environment_type |-> "client_configured",
          requires_setup |-> ~is_fully_configured(load_env_config(e)),
          auto_authentication |-> FALSE]
    ELSE [environment_type |-> "unconfigured",
          requires_setup |-> TRUE, auto_authentication |-> FALSE]

\* "connection_params": {}
NoParams == [server_hostname |-> << >>, http_path |-> << >>, access_token |-> << >>]

\* the result of get_connection_config; requires_setup is what
\* result.get("requires_setup", False) reads
get_connection_config(e) ==
    LET env_config == detect_environment(e)
    IN IF env_config.environment_type \in {"databricks_runtime", "databricks_lakehouse_app"}
       THEN [use_automatic_auth |-> TRUE, connection_params |-> NoParams,
             requires_setup |-> FALSE]
       ELSE IF env_config.environment_type = "client_configured"
       THEN LET env_vars == load_env_config(e)
            IN [use_automatic_auth |-> FALSE,
                connection_params |->
                    [server_hostname |-> WithoutScheme(env_vars.DATABRICKS_HOST),
                     http_path |-> env_vars.DATABRICKS_HTTP_PATH,
                     access_token |-> env_vars.DATABRICKS_TOKEN],
                requires_setup |-> FALSE]
       ELSE [use_automatic_auth |-> FALSE, connection_params |-> NoParams,
             requires_setup |-> TRUE]

----------------------------------------------------------------------------
(* The functions that query the warehouse.  A call either returns a value  *)
(* or raises; attempts counts the connections it opened.                   *)

Returned(value, attempts) == [raised |-> FALSE, value |-> value, attempts |-> attempts]

Raised(attempts) == [raised |-> TRUE, value |-> "", attempts |-> attempts]

\* try: ... except Exception: return fallback
Caught(result, fallback) ==
    IF result.raised THEN Returned(fallback, result.attempts) ELSE result

\* sql.connect(...) and the query: reach tells whether they succeed
Queried(reach, attempts) ==
    IF reach THEN Returned("rows", attempts + 1) ELSE Raised(attempts + 1)

\* get_databricks_connection_params of dq_tracker.py, dq_dashboard.py and
\* data_intelligence.py: TRUE when it raises ValueError
ParamsMissing(e) ==
    ~ /\ Truthy(WithoutScheme(e.DATABRICKS_HOST))
      /\ Truthy(e.DATABRICKS_TOKEN)
      /\ Truthy(e.DATABRICKS_HTTP_PATH)

\* get_databricks_connection_params of settings.py (the host is not stripped)
SettingsParamsMissing(e) == ~is_fully_configured(load_env_config(e))

\* settings.get_databricks_connection followed by a query
SettingsQueried(e, reach) ==
    IF SettingsParamsMissing(e) THEN Raised(0) ELSE Queried(reach, 0)

\* the body of load_data_from_databricks
LoadTried(e, reach) ==
    LET connection_config == get_connection_config(e)
        params == connection_config.connection_params
    IN IF connection_config.use_automatic_auth
       THEN Caught(Queried(reach, 0), "empty")
       ELSE IF connection_config.requires_setup
       THEN Returned("empty", 0)
       ELSE IF ~ /\ Truthy(params.server_hostname)
                 /\ Truthy(params.http_path)
                 /\ Truthy(params.access_token)
       THEN Returned("empty", 0)
       ELSE Caught(Queried(reach, 0), "empty")

\* the body of a fetch function of the pages: fetch_failed_records,
\* fetch_combined_data, fetch_table_data
FetchTried(e, reach) ==
    Caught(IF ParamsMissing(e) THEN Raised(0) ELSE Queried(reach, 0), "empty")

\* settings.get_tables_in_schema
get_tables_in_schema(e, reach) == Caught(SettingsQueried(e, reach), "empty")

\* settings.get_all_schemas: [DELTA_SCHEMA] when the query fails
get_all_schemas(e, reach) == Caught(SettingsQueried(e, reach), "default")

\* settings.get_columns_in_table: no exception handler
get_columns_in_table(e, reach) == SettingsQueried(e, reach)

RemoteFunctions ==
    {"load_data_from_databricks", "fetch_failed_records", "fetch_combined_data",
     "get_tables_in_schema", "get_all_schemas", "get_columns_in_table"}

Called(f, e, reach) ==
    IF f = "load_data_from_databricks" THEN LoadTried(e, reach)
    ELSE IF f \in {"fetch_failed_records", "fetch_combined_data"} THEN FetchTried(e, reach)
    ELSE IF f = "get_tables_in_schema" THEN get_tables_in_schema(e, reach)
    ELSE IF f = "get_all_schemas" THEN get_all_schemas(e, reach)
    ELSE get_columns_in_table(e, reach)

\* the session, caches and ledgers of the dashboard, untouched
app == <<now, wh_main, wh_failed, cache_main, cache_combined, cache_failed,
         df, last_refresh, refresh_mode, refresh_interval,
         specific_refresh_datetime, action_tracker, budget, last_op,
         peer_tracker>>

\* the dashboard variables of a process in which no session has run yet
AppStart ==
    /\ now = 0
    /\ wh_main = 1
    /\ wh_failed = {3}
    /\ cache_main = NoEntry
    /\ cache_combined = NoEntry
    /\ cache_failed = [NoEntry EXCEPT !.val = EmptyFrame]
    /\ df = NoDf
    /\ last_refresh = 0
    /\ refresh_mode = "Interval-Based"
    /\ refresh_interval = DEFAULT_REFRESH_INTERVAL
    /\ specific_refresh_datetime = NoTime
    /\ action_tracker = EmptyFrame
    /\ budget = 0
    /\ last_op = NoOp
    /\ peer_tracker = EmptyFrame

\* the connection resolver is asked for the configuration
ResolveConnection ==
    /\ outcome' = [call |-> "get_connection_config",
                   detected |-> detect_environment(environ),
                   config |-> get_connection_config(environ)]
    /\ UNCHANGED <<app, environ, page_df>>

\* one of the functions that query the warehouse is called; the warehouse
\* answers or the call fails
RemoteCall ==
    /\ \E f \in RemoteFunctions, reach \in BOOLEAN :
         outcome' = [call |-> f, reach |-> reach, result |-> Called(f, environ, reach)]
    /\ UNCHANGED <<app, environ, page_df>>

InitEnv ==
    /\ AppStart
    /\ environ \in Environments
    /\ page_df = NoFrame
    /\ outcome = NoOutcome

NextEnv ==
    \/ ResolveConnection
    \/ RemoteCall

SpecEnv == InitEnv /\ [][NextEnv]_vars

----------------------------------------------------------------------------
(* Properties of the connection resolver and of the remote calls *)

InPlatform(e) == e.runtime \/ e.lakehouse

\* C11: outside the platform, with host, token and HTTP path all set in the
\* environment, the resolver selects explicit credentials, all three
\* parameters non-empty, and does not signal setup-required, whatever
\* configuration files exist.
C11_EnvCredentialsSelected ==
    (/\ outcome.call = "get_connection_config"
     /\ ~InPlatform(environ)
     /\ is_fully_configured(load_env_config(environ))) =>
        /\ ~outcome.config.use_automatic_auth
        /\ Truthy(outcome.config.connection_params.server_hostname)
        /\ Truthy(outcome.config.connection_params.http_path)
        /\ Truthy(outcome.config.connection_params.access_token)
        /\ ~outcome.config.requires_setup

\* C12: outside the platform, with host, token or HTTP path missing, the
\* result of get_connection_config signals setup-required, and it does so
\* whenever detect_environment reports requires_setup.
C12_SetupRequiredSignalled ==
    outcome.call = "get_connection_config" =>
        /\ (~InPlatform(environ) /\ ~is_fully_configured(load_env_config(environ)))
              => outcome.config.requires_setup
        /\ outcome.detected.requires_setup => outcome.config.requires_setup

\* C13: a remote call that fails returns an empty result to its caller,
\* raises nothing and is not attempted again within the invocation.
C13_RemoteFailuresCaught ==
    (outcome.call \in RemoteFunctions /\ ~outcome.reach) =>
        /\ ~outcome.result.raised
        /\ outcome.result.value = "empty"
        /\ outcome.result.attempts <= 1

----------------------------------------------------------------------------
(* app.py "Preprocess DataFrame" and the pages that are handed the table.  *)
(* A table is its set of column names and its rows; a row carries a field  *)
(* per column of the model, read only when the column exists.  The column  *)
(* names of the model have no surrounding blanks, so stripping the header  *)
(* leaves them as they are.                                                *)

\* the longest table the model preprocesses
MaxRows == 2

BLANK == " "

\* str.strip(): leading blanks removed
RECURSIVE LStrip(_)
LStrip(text) ==
    IF text # << >> /\ Head(text) = BLANK THEN LStrip(Tail(text)) ELSE text

\* trailing blanks removed
RECURSIVE RStrip(_)
RStrip(text) ==
    IF text # << >> /\ text[Len(text)] = BLANK
    THEN RStrip(SubSeq(text, 1, Len(text) - 1)) ELSE text

\* Series.str.strip() on one value: a missing value comes out as NaN
Strip(v) == IF v \in {NULL, NAN} THEN NAN ELSE LStrip(RStrip(v))

LowerChar(c) == IF c = "A" THEN "a" ELSE IF c = "B" THEN "b" ELSE c

\* Series.str.lower() on one value
Lower(v) == IF v \in {NULL, NAN} THEN NAN ELSE [i \in 1..Len(v) |-> LowerChar(v[i])]

\* timestamps: a text (t = 0: not a date), a missing value, a parsed
\* datetime, or NaT
TextTime(t) == [kind |-> "text", t |-> t]

NoTimeValue == [kind |-> "null", t |-> 0]

Datetime(t) == [kind |-> "datetime", t |-> t]

NaT == [kind |-> "NaT", t |-> 0]

\* mutant: only texts parse, a parsed datetime does not
ToDatetime_TextOnly(v) ==
    IF v.kind = "text" /\ v.t > 0 THEN Datetime(v.t) ELSE NaT

\* pd.to_datetime(value, errors="coerce")
ToDatetime(v) ==
    IF v.kind = "datetime" THEN v
    ELSE IF v.kind = "text" /\ v.t > 0 THEN Datetime(v.t)
    ELSE NaT

ResultRow(i, t, c, ts, st) ==
    [idx |-> i, Table |-> t, Column |-> c, Run_Timestamp |-> ts, Status |-> st,
     Rule_Display_Name |-> <<"r">>, Table_Column |-> NULL]

TableTexts == {<<BLANK, "A", "b", BLANK>>, <<"a", "b">>, NULL}

ColumnTexts == {<<"C", BLANK>>, <<"C">>, NULL}

TimeValues == {TextTime(1), TextTime(0), NoTimeValue}

RawColumns == {"Table", "Column", "Run_Timestamp", "Status", "Rule_Display_Name", "Failure_Type"}

\* the column sets of the tables the loader hands over: the full table, the
\* table without one of its columns
ColumnSets == {RawColumns} \cup {RawColumns \ {c} : c \in {"Table", "Column", "Run_Timestamp", "Status"}}

\* the value a row holds for a column, the placeholder when the table has
\* no such column
Cell(columns, col, v, placeholder) == IF col \in columns THEN v ELSE placeholder

\* the tables load_data_from_databricks can return: pd.DataFrame() (no
\* column, no row) or a table of 1..MaxRows rows labelled 0..n-1
RawTables ==
    {NoFrame} \cup
    {[columns |-> cs, rows |-> rows] :
        cs \in ColumnSets,
        rows \in UNION {[1..n -> [t : TableTexts, c : ColumnTexts, ts : TimeValues,
                                  st : {"Failed", "Passed"}]] : n \in 1..MaxRows}}

\* the row records of a drawn table
Materialised(d) ==
    [columns |-> d.columns,
     rows |-> [i \in 1..Len(d.rows) |->
                 ResultRow(i - 1,
                           Cell(d.columns, "Table", d.rows[i].t, NULL),
                           Cell(d.columns, "Column", d.rows[i].c, NULL),
                           Cell(d.columns, "Run_Timestamp", d.rows[i].ts, NoTimeValue),
                           Cell(d.columns, "Status", d.rows[i].st, "Passed"))]]

\* the same row is not drawn twice for tables that lack a column
Canonical(d) ==
    \A i \in 1..Len(d.rows) :
        /\ "Table" \notin d.columns => d.rows[i].t = NULL
        /\ "Column" \notin d.columns => d.rows[i].c = NULL
        /\ "Run_Timestamp" \notin d.columns => d.rows[i].ts = NoTimeValue
        /\ "Status" \notin d.columns => d.rows[i].st = "Passed"

\* rows whose positions are in the mask, labels kept
RowsAt(rows, mask) ==
    LET F[i \in 0..Len(rows)] ==
            IF i = 0 THEN << >>
            ELSE IF i \in mask THEN Append(F[i - 1], rows[i]) ELSE F[i - 1]
    IN F[Len(rows)]

\* lines 111-113: the Table and Column values are stripped where the column exists
Stripped(d) ==
    [d EXCEPT !.rows =
        [i \in 1..Len(d.rows) |->
            [d.rows[i] EXCEPT
                !.Table = IF "Table" \in d.columns THEN Strip(@) ELSE @,
                !.Column = IF "Column" \in d.columns THEN Strip(@) ELSE @]]]

\* line 114
Lowered(d) ==
    [d EXCEPT !.rows = [i \in 1..Len(d.rows) |-> [d.rows[i] EXCEPT !.Table = Lower(@)]]]

\* line 115
Combined(d) ==
    [columns |-> d.columns \cup {"Table.Column"},
     rows |-> [i \in 1..Len(d.rows) |->
                 [d.rows[i] EXCEPT !.Table_Column =
                     AsStr(d.rows[i].Table) \o <<".">> \o AsStr(d.rows[i].Column)]]]

\* lines 116-118
Parsed(d) ==
    IF "Run_Timestamp" \in d.columns
    THEN LET rows == [i \in 1..Len(d.rows) |->
                         [d.rows[i] EXCEPT !.Run_Timestamp = ToDatetime(@)]]
         IN [d EXCEPT !.rows =
                RowsAt(rows, {i \in 1..Len(rows) : rows[i].Run_Timestamp # NaT})]
    ELSE d

\* the preprocessing step on the session's table, which it changes in
\* place: the table afterwards, whether a KeyError ended the script run,
\* and whether the "No data loaded" warning was shown
Preprocessed(d, page) ==
    IF d.rows = << >>
    THEN [df |-> d, raised |-> FALSE, warned |-> page # "About AutoDQ"]
    ELSE IF "Table" \notin d.columns
    THEN [df |-> Stripped(d), raised |-> TRUE, warned |-> FALSE]
    ELSE IF "Column" \notin d.columns
    THEN [df |-> Lowered(Stripped(d)), raised |-> TRUE, warned |-> FALSE]
    ELSE [df |-> Parsed(Combined(Lowered(Stripped(d)))), raised |-> FALSE, warned |-> FALSE]

\* the pages the model renders
Pages ==
    {"About AutoDQ", "Check Coverage", "Alert Feed", "Data Intelligence Hub",
     "DQ Action Tracker"}

\* df[...] of a column the table does not have raises KeyError
Lacks(d, cols) == ~(cols \subseteq d.columns)

\* a value groupby and nunique treat as missing
IsNull(v) == v \in {NULL, NAN}

\* the limit of the middle band of the coverage grid
PARTIAL_MAX == 10

\* mutant: the middle band ends below its limit
Band_Strict(value) ==
    IF value = 0 THEN "blind spot"
    ELSE IF value < PARTIAL_MAX THEN "partial"
    ELSE "well covered"

\* cell_style_jscode: red, yellow, green
Band(value) ==
    IF value = 0 THEN "blind spot"
    ELSE IF value <= PARTIAL_MAX THEN "partial"
    ELSE "well covered"

\* the positions of the rows groupby(['Table', 'Column']) puts in a group:
\* a row with a missing key is in none
Grouped(d) ==
    {i \in 1..Len(d.rows) : ~IsNull(d.rows[i].Table) /\ ~IsNull(d.rows[i].Column)}

\* ['Rule_Display_Name'].nunique() of the group (t, c)
NUnique(d, t, c) ==
    Cardinality({d.rows[i].Rule_Display_Name :
                    i \in {j \in Grouped(d) : d.rows[j].Table = t /\ d.rows[j].Column = c}}
                \ {NULL, NAN})

\* the coverage grid: a row per table of a group, a column per Column
\* value of a group, 0 where the pair has no group
Coverage(d) ==
    LET index == {d.rows[i].Table : i \in Grouped(d)}
        columns == {d.rows[i].Column : i \in Grouped(d)}
    IN [index |-> index, columns |-> columns,
        cell |-> [p \in index \X columns |-> NUnique(d, p[1], p[2])]]

NoCoverage == [index |-> {}, columns |-> {}, cell |-> << >>]

\* the style of every cell of the grid
Styled(coverage) == [p \in DOMAIN coverage.cell |-> Band(coverage.cell[p])]

\* mutant: one rule fewer is critical
critical_rules_Three ==
    {<<"No Nulls">>, <<"Unique Values">>, <<"Primary Key Present">>}

critical_rules ==
    {<<"No Nulls">>, <<"Unique Values">>, <<"Primary Key Present">>, <<"Foreign Key Valid">>}

\* alerts.py 7-20: the entry of a failed record (the Message column, a copy
\* of Failure_Type, is left out)
AlertEntry(row) ==
    [idx |-> row.idx, Time |-> row.Run_Timestamp, Table |-> row.Table,
     Rule |-> row.Rule_Display_Name, Status |-> row.Status,
     Severity |-> IF row.Rule_Display_Name \in critical_rules THEN "Critical" ELSE "Warning"]

\* df[df['Status'] == 'Failed']: the positions of the failed records
FailedPositions(d) == {i \in 1..Len(d.rows) : d.rows[i].Status = "Failed"}

\* the positions with the latest time among the remaining ones
Latest(d, remaining) ==
    {i \in remaining :
        \A j \in remaining : d.rows[i].Run_Timestamp.t >= d.rows[j].Run_Timestamp.t}

\* the orders sort_values(by='Time', ascending=False) can leave the
\* positions in: later times first, equal times in either order
RECURSIVE TimeOrdersOf(_, _)
TimeOrdersOf(d, remaining) ==
    IF remaining = {} THEN {<< >>}
    ELSE UNION {{<<i>> \o o : o \in TimeOrdersOf(d, remaining \ {i})} :
                   i \in Latest(d, remaining)}

TimeOrders(d) == TimeOrdersOf(d, FailedPositions(d))

\* the feeds the page can show
AlertFeeds(d) == {[i \in DOMAIN o |-> AlertEntry(d.rows[o[i]])] : o \in TimeOrders(d)}

\* what the page's render function ends with: "content", "message" (a
\* warning or info in place of the content) or "error" (an exception that
\* no handler catches)
PageRendered(page, d) ==
    IF page = "Check Coverage"
    THEN IF Lacks(d, {"Table", "Column", "Rule_Display_Name"}) THEN "error" ELSE "content"
    ELSE IF page = "Alert Feed"
    THEN IF Lacks(d, {"Status"}) THEN "error"
         ELSE IF \A i \in 1..Len(d.rows) : d.rows[i].Status # "Failed" THEN "message"
         ELSE IF Lacks(d, {"Run_Timestamp", "Table", "Rule_Display_Name", "Failure_Type"})
              THEN "error" ELSE "content"
    ELSE IF page = "Data Intelligence Hub"
    THEN IF d.rows = << >> THEN "message" ELSE "content"
    ELSE "content"

\* a script run over the session's table: preprocessing, then the page
RenderPage ==
    /\ \E page \in Pages :
        \E pre \in {Preprocessed(page_df, page)} :
          \E result \in {IF pre.raised THEN "error" ELSE PageRendered(page, pre.df)} :
            \E coverage \in {IF page = "Check Coverage" /\ result = "content"
                              THEN Coverage(pre.df) ELSE NoCoverage},
               alert_feed \in (IF page = "Alert Feed" /\ result = "content"
                                THEN AlertFeeds(pre.df) ELSE {<< >>}) :
                /\ page_df' = pre.df
                /\ outcome' = [call |-> page, given |-> page_df,
                               raised |-> pre.raised, warned |-> pre.warned,
                               result |-> result,
                               coverage |-> coverage, style |-> Styled(coverage),
                               alert_feed |-> alert_feed]
    /\ UNCHANGED <<app, environ>>

InitRender ==
    /\ AppStart
    /\ environ = NoEnviron
    /\ \E d \in RawTables : Canonical(d) /\ page_df = Materialised(d)
    /\ outcome = NoOutcome

NextRender == RenderPage

SpecRender == InitRender /\ [][NextRender]_vars

----------------------------------------------------------------------------
(* Properties of preprocessing and of the pages *)

\* the table lacks a column the pages expect, or has no row
Deficient(d) ==
    \/ d.rows = << >>
    \/ Lacks(d, {"Table", "Column", "Run_Timestamp", "Status", "Rule_Display_Name"})

\* C14: when the table is empty or lacks an expected column, rendering a
\* page ends with a warning or info message (or the content the table still
\* allows), never with an unhandled error, in the preprocessing step and in
\* each page.
C14_DeficientTableRendersMessage ==
    (outcome.call \in Pages /\ Deficient(outcome.given)) =>
        /\ ~outcome.raised
        /\ outcome.result # "error"

\* the row of a table with the given label
RowLabelled(d, label) ==
    d.rows[CHOOSE i \in 1..Len(d.rows) : d.rows[i].idx = label]

\* the text of a value as the statement reads it: the value itself
JoinedName(table, column) == table \o <<".">> \o column

\* C16: for every non-empty input table, no row of the preprocessed table
\* has an unparsable Run_Timestamp, and the Table.Column of every retained
\* row is the lower-cased, trimmed Table value, a dot, and the trimmed
\* Column value of that row.
C16_PreprocessedRowsWellFormed ==
    (/\ outcome.call \in Pages
     /\ ~outcome.raised
     /\ outcome.given.rows # << >>) =>
        \A i \in 1..Len(page_df.rows) :
            LET row == page_df.rows[i]
                given == RowLabelled(outcome.given, row.idx)
            IN /\ "Run_Timestamp" \in page_df.columns => row.Run_Timestamp.kind = "datetime"
               /\ row.Table_Column = JoinedName(Lower(Strip(given.Table)), Strip(given.Column))

\* C17: preprocessing is idempotent: applied to its own output it returns
\* that output unchanged (same rows, same labels, same values).
C17_PreprocessingIdempotent ==
    outcome.call \in Pages =>
        Preprocessed(page_df, outcome.call).df = page_df

\* a second script run was handed the preprocessed table of a first one
\* that had dropped the first row, and left it as it was
C17_Witness ==
    /\ outcome.call \in Pages
    /\ ~outcome.raised
    /\ "Table.Column" \in outcome.given.columns
    /\ Len(outcome.given.rows) = 1
    /\ outcome.given.rows[1].idx = 1
    /\ outcome.given.rows[1].Table = <<"a", "b">>
    /\ outcome.given.rows[1].Run_Timestamp = Datetime(1)
    /\ page_df = outcome.given

----------------------------------------------------------------------------
(* Two browser sessions on the same server process.  Session B keeps its   *)
(* own st.session_state (peer_tracker is its action_tracker); the cache of *)
(* fetch_failed_records is shared, and every call it answers returns a     *)
(* copy of the cached table.  No time passes, so the table B's script top  *)
(* loads is answered by the loader's cache, which A's runs leave filled.   *)

\* the edits the two sessions may make together
MaxSessionEdits == 2

\* the record of an interaction of session B
PeerOp(name) ==
    [NoOp EXCEPT !.op = name,
                 !.size = Len(peer_tracker),
                 !.resolved = CountResolved(peer_tracker)]

\* a script run of session B that stores `new` as its ledger
PeerStep(op, new, spend) ==
    /\ SetLedger("B", new)
    /\ budget' = budget - spend
    /\ last_op' = op
    /\ UNCHANGED <<now, warehouse, cache_main, cache_combined, df, last_refresh,
                   refresh_mode, refresh_interval, specific_refresh_datetime, bench>>

PeerImport ==
    \E okf \in CallOutcomes(cache_failed, TTL_FAILED, now) :
        LET r == fetch_failed_records(cache_failed, now, okf)
        IN /\ cache_failed' = r.entry
           /\ PeerStep([PeerOp("PeerImport") EXCEPT
                            !.fetched = r.val,
                            !.remote = IF r.remote THEN {"failed"} ELSE {},
                            !.cached = IF r.remote THEN {} ELSE {"failed"}],
                       Imported(peer_tracker, r.val), 0)

PeerBulkApply ==
    /\ ~IsEmpty(peer_tracker)
    /\ budget > 0
    /\ \E filtered_df \in FilteredViews(peer_tracker),
          bulk_status \in BulkStatusChoices,
          bulk_assignee \in BulkAssigneeChoices :
        PeerStep(PeerOp("PeerBulkApply"),
                 BulkApplied(peer_tracker, filtered_df, bulk_status, bulk_assignee), 1)
    /\ UNCHANGED cache_failed

PeerClearResolved ==
    /\ ~IsEmpty(peer_tracker)
    /\ PeerStep(PeerOp("PeerClearResolved"), ClearedResolved(peer_tracker), 0)
    /\ UNCHANGED cache_failed

PeerRowEdit ==
    /\ ~IsEmpty(peer_tracker)
    /\ budget > 0
    /\ \E filtered_df \in FilteredViews(peer_tracker) :
        \E pos \in 1..Len(filtered_df), col \in EDITABLE_COLS :
          \E value \in CellChoices(col) \ {filtered_df[pos][col]} :
            PeerStep(PeerOp("PeerRowEdit"),
                     EditsApplied(peer_tracker, filtered_df,
                                  EditedFrame(filtered_df, pos, col, value)), 1)
    /\ UNCHANGED cache_failed

PeerClearAllData ==
    /\ PeerStep(PeerOp("PeerClearAllData"), EmptyFrame, 0)
    /\ UNCHANGED cache_failed

InitSessions ==
    /\ now = 0
    /\ wh_main = 1
    /\ wh_failed \in WhFailedChoices
    /\ cache_main = [has |-> TRUE, at |-> 0, val |-> 1]
    /\ cache_combined = NoEntry
    /\ cache_failed = [NoEntry EXCEPT !.val = EmptyFrame]
    /\ df = [present |-> TRUE, v |-> 1]
    /\ last_refresh = 0
    /\ refresh_mode = "Interval-Based"
    /\ refresh_interval = DEFAULT_REFRESH_INTERVAL
    /\ specific_refresh_datetime = NoTime
    /\ action_tracker = EmptyFrame
    /\ budget = MaxSessionEdits
    /\ last_op = NoOp
    /\ Quiet

NextSessions ==
    \/ Import
    \/ BulkApply
    \/ ClearResolved
    \/ RowEdit
    \/ ClearAllData
    \/ PeerImport
    \/ PeerBulkApply
    \/ PeerClearResolved
    \/ PeerRowEdit
    \/ PeerClearAllData

SpecSessions == InitSessions /\ [][NextSessions]_vars

OwnOps == {"Import", "BulkApply", "ClearResolved", "RowEdit", "ClearAllData"}

PeerOps == {"PeerImport", "PeerBulkApply", "PeerClearResolved", "PeerRowEdit", "PeerClearAllData"}

\* C15: the ledgers of two concurrent sessions are independent: under any
\* interleaving of import, row edit, bulk apply, Clear Resolved and Clear
\* All Data, an operation of one session leaves the ledger of the other
\* session as it was, also when both import from the same cached fetch.
C15_LedgersIndependent ==
    [][/\ last_op'.op \in OwnOps => peer_tracker' = peer_tracker
       /\ last_op'.op \in PeerOps => action_tracker' = action_tracker]_vars

\* session B has just imported from the cached fetch that session A had
\* imported from and then edited: B's entries are all Open although A holds
\* the same keys with other statuses
C15_Witness ==
    /\ last_op.op = "PeerImport"
    /\ last_op.cached = {"failed"}
    /\ last_op.size = 0
    /\ ~IsEmpty(peer_tracker)
    /\ KeysOf(peer_tracker) = KeysOf(action_tracker)
    /\ \A i \in 1..Len(peer_tracker) : peer_tracker[i].Action_Status = "Open"
    /\ \E i \in 1..Len(action_tracker) : action_tracker[i].Action_Status = "Resolved"

----------------------------------------------------------------------------
(* The Check Coverage page over tables with many rules per column *)

\* the most rules a table/column pair has
MaxRules == 12

RuleName(k) == <<"r", ToString(k)>>

\* the table/column pairs of the input: three column-level pairs, a table
\* that has table-level rules only, and a rule without a table
CoveragePairs ==
    <<[t |-> <<"a">>, c |-> <<"C">>],
      [t |-> <<"b">>, c |-> <<"D">>],
      [t |-> <<"a">>, c |-> <<"D">>],
      [t |-> <<"z">>, c |-> NULL],
      [t |-> NULL, c |-> <<"C">>]>>

\* how many distinct rules each pair may have; the first pair has a rule in
\* every input, so that the grid has a row and a column
RuleCounts == <<1..MaxRules, {0, 1, PARTIAL_MAX + 1}, {0, 1}, {0, 1}, {0, 1}>>

\* the rows of one pair: n rules, each with a Failed row and, when `both`,
\* with a Passed row too
RowsOfPair(pair, n, both) ==
    [j \in 1..(IF both THEN 2 * n ELSE n) |->
        [t |-> pair.t, c |-> pair.c, rule |-> RuleName(((j - 1) % n) + 1),
         st |-> IF j <= n THEN "Failed" ELSE "Passed"]]

\* the result table with the rows of all the pairs
CoverageInput(counts, both) ==
    LET F[k \in 0..Len(CoveragePairs)] ==
            IF k = 0 THEN << >>
            ELSE F[k - 1] \o RowsOfPair(CoveragePairs[k], counts[k], both)
        rows == F[Len(CoveragePairs)]
    IN [columns |-> RawColumns,
        rows |-> [i \in 1..Len(rows) |->
                    [ResultRow(i - 1, rows[i].t, rows[i].c, TextTime(i), rows[i].st)
                        EXCEPT !.Rule_Display_Name = rows[i].rule]]]

InitCoverage ==
    /\ AppStart
    /\ environ = NoEnviron
    /\ \E counts \in [1..Len(CoveragePairs) -> 0..MaxRules], both \in BOOLEAN :
        /\ \A k \in 1..Len(CoveragePairs) : counts[k] \in RuleCounts[k]
        /\ page_df = CoverageInput(counts, both)
    /\ outcome = NoOutcome

SpecCoverage == InitCoverage /\ [][NextRender]_vars

\* the names that occur in a column of the table
NamesIn(d, col) == {d.rows[i][col] : i \in 1..Len(d.rows)} \ {NULL, NAN}

\* the distinct rule names of the rows with the pair
RulesOf(d, t, c) ==
    {d.rows[i].Rule_Display_Name :
        i \in {j \in 1..Len(d.rows) : d.rows[j].Table = t /\ d.rows[j].Column = c}}
    \ {NULL, NAN}

\* C18: for every table name and column name that each occur in the input,
\* the coverage cell (table, column) is the number of distinct
\* Rule_Display_Name values among the rows with that pair, whatever their
\* Status, and 0 when no row has that pair.
C18_CellCountsDistinctRules ==
    (outcome.call = "Check Coverage" /\ outcome.result = "content") =>
        \A t \in NamesIn(outcome.given, "Table"), c \in NamesIn(outcome.given, "Column") :
            /\ <<t, c>> \in DOMAIN outcome.coverage.cell
            /\ outcome.coverage.cell[<<t, c>>] = Cardinality(RulesOf(outcome.given, t, c))

\* C19: a coverage cell of 0 is a blind spot, a cell from 1 to 10 is
\* partial, a cell above 10 is well covered; 10 is partial, 11 is well
\* covered.
C19_BandsByFixedThresholds ==
    outcome.call = "Check Coverage" =>
        \A p \in DOMAIN outcome.style :
            LET n == outcome.coverage.cell[p]
                band == outcome.style[p]
            IN /\ n = 0 <=> band = "blind spot"
               /\ (n >= 1 /\ n <= 10) <=> band = "partial"
               /\ n > 10 <=> band = "well covered"

\* a rendered grid with a cell of 10 styled partial, a cell of 11 styled
\* well covered and a cell of 0 styled blind spot
C19_Witness ==
    /\ outcome.call = "Check Coverage"
    /\ outcome.result = "content"
    /\ \E p, q, r \in DOMAIN outcome.style :
        /\ outcome.coverage.cell[p] = 10 /\ outcome.style[p] = "partial"
        /\ outcome.coverage.cell[q] = 11 /\ outcome.style[q] = "well covered"
        /\ outcome.coverage.cell[r] = 0 /\ outcome.style[r] = "blind spot"

----------------------------------------------------------------------------
(* anomaly_detection.py: "Detect Anomalies" over the numeric columns.  A   *)
(* cell is a text, a missing value, a number or NaN; the rows keep the     *)
(* labels the loader and the preprocessing left them with.                 *)

\* the most rows with ordinary values, and the most rows the forest flags
MaxBase == 10

MaxFlagged == 1

Z_THRESHOLD == 3

NumText(v) == [kind |-> "text", v |-> v]

JunkText == [kind |-> "junk", v |-> 0]

NoValue == [kind |-> "null", v |-> 0]

Number(v) == [kind |-> "number", v |-> v]

NotANumber == [kind |-> "NaN", v |-> 0]

\* pd.to_numeric(value, errors="coerce")
ToNumeric(c) ==
    IF c.kind \in {"text", "number"} THEN Number(c.v) ELSE NotANumber

CANDIDATE_NUMERIC_COLS == {"Failed_Value", "Failed_Row_ID"}

NumericCols == {"Failed_Value_num", "Failed_Row_ID_num"}

FailedValueRow(label, value, row_id) ==
    [idx |-> label, Failed_Value |-> value, Failed_Row_ID |-> row_id,
     Failed_Value_num |-> NoValue, Failed_Row_ID_num |-> NoValue]

\* lines 7-10: the numeric copies of the candidate columns
WithNumericCols(d) ==
    [columns |-> d.columns \cup NumericCols,
     rows |-> [i \in 1..Len(d.rows) |->
                 [d.rows[i] EXCEPT
                     !.Failed_Value_num = ToNumeric(d.rows[i].Failed_Value),
                     !.Failed_Row_ID_num = ToNumeric(d.rows[i].Failed_Row_ID)]]]

\* mutant: no row is left out
DropNa_None(d, cols) == 1..Len(d.rows)

\* df[selected_cols].dropna(): the positions of the rows with a value in
\* every selected column
DropNa(d, cols) ==
    {i \in 1..Len(d.rows) : \A c \in cols : d.rows[i][c].kind = "number"}

\* the sum (power 1) or the sum of squares (power 2) of the column over the
\* rows at the positions between lo and hi
RECURSIVE SumBetween(_, _, _, _, _, _)
SumBetween(d, positions, col, power, lo, hi) ==
    IF lo > hi THEN 0
    ELSE IF lo = hi
    THEN IF lo \in positions
         THEN (IF power = 2 THEN d.rows[lo][col].v * d.rows[lo][col].v
               ELSE d.rows[lo][col].v)
         ELSE 0
    ELSE SumBetween(d, positions, col, power, lo, (lo + hi) \div 2)
         + SumBetween(d, positions, col, power, ((lo + hi) \div 2) + 1, hi)

SumOver(d, positions, col, power) ==
    SumBetween(d, positions, col, power, 1, Len(d.rows))

\* mutant: a threshold of 5
ZExceeds_Five(x, n, S, Q) ==
    (n * x - S) * (n * x - S) > 25 * (n * Q - S * S)

\* mutant: a threshold of 2
ZExceeds_Two(x, n, S, Q) ==
    (n * x - S) * (n * x - S) > 4 * (n * Q - S * S)

\* mutant: a comparison that a column without variance satisfies
ZExceeds_OrEqual(x, n, S, Q) ==
    (n * x - S) * (n * x - S) >= Z_THRESHOLD * Z_THRESHOLD * (n * Q - S * S)

\* abs(zscore) > 3 for the value x of a column with n values of sum S and
\* sum of squares Q (population standard deviation); never true for a
\* column without variance
ZExceeds(x, n, S, Q) ==
    (n * x - S) * (n * x - S) > Z_THRESHOLD * Z_THRESHOLD * (n * Q - S * S)

\* the number of scored values of a column, their sum and their sum of squares
Moments(d, scored, col) ==
    [n |-> Cardinality(scored), S |-> SumOver(d, scored, col, 1),
     Q |-> SumOver(d, scored, col, 2)]

\* (z_df.abs() > 3).any(axis=1): the scored positions that are flagged
ZScoreMask(d, scored, cols) ==
    UNION {{i \in scored : ZExceeds(d.rows[i][p[1]].v, p[2].n, p[2].S, p[2].Q)} :
              p \in {<<c, Moments(d, scored, c)>> : c \in cols}}

\* the exact z-score of x is 3 or -3: the quotient (x - mean) / std is
\* computed in floating point and lands on 3.0 or on the next number above
\* it (nine values 0 and one value 7 give 3.0000000000000004, nine values
\* 0 and one value 100 give 3.0)
ZTied(x, n, S, Q) ==
    /\ n * Q - S * S > 0
    /\ (n * x - S) * (n * x - S) = Z_THRESHOLD * Z_THRESHOLD * (n * Q - S * S)

\* the scored positions with a value whose exact z-score is on the threshold
ZScoreTies(d, scored, cols) ==
    UNION {{i \in scored : ZTied(d.rows[i][p[1]].v, p[2].n, p[2].S, p[2].Q)} :
              p \in {<<c, Moments(d, scored, c)>> : c \in cols}}

\* the masks the Z-Score method can produce: the rows above the threshold,
\* with any of the rows on it
ZScoreMasks(d, scored, cols) ==
    UNION {{sure \cup t : t \in SUBSET (ZScoreTies(d, scored, cols) \ sure)} :
              sure \in {ZScoreMask(d, scored, cols)}}

\* model.fit_predict(...) == -1: some of the scored positions
ForestMasks(scored) == {m \in SUBSET scored : Cardinality(m) <= MaxFlagged}

\* df.loc[labels]: the rows of the table with these labels
Loc(d, labels) == RowsAt(d.rows, {i \in 1..Len(d.rows) : d.rows[i].idx \in labels})

\* the button "Detect Anomalies" with the method of the selectbox
Detect(method) ==
    /\ page_df' = WithNumericCols(page_df)
    /\ \E selected_cols \in SUBSET NumericCols :
        \E df_selected \in {DropNa(page_df', selected_cols)} :
           IF selected_cols = {} \/ df_selected = {}
           THEN outcome' = [call |-> "Detect Anomalies", method |-> method,
                            selected |-> selected_cols, result |-> "message",
                            mask |-> << >>, anomalies |-> << >>]
           ELSE \E flagged \in (IF method = "Z-Score"
                                THEN ZScoreMasks(page_df', df_selected, selected_cols)
                                ELSE ForestMasks(df_selected)) :
                  outcome' = [call |-> "Detect Anomalies", method |-> method,
                              selected |-> selected_cols, result |-> "content",
                              mask |-> [l \in {page_df'.rows[i].idx : i \in df_selected} |->
                                          \E i \in flagged : page_df'.rows[i].idx = l],
                              anomalies |-> Loc(page_df', {page_df'.rows[i].idx : i \in flagged})]
    /\ UNCHANGED <<app, environ>>

DetectAnomalies == \E method \in {"Z-Score", "Isolation Forest"} : Detect(method)

\* the failed-value tables: `base` rows of value 0, then maybe a row with a
\* far value, and maybe a row without a Failed_Value (lead: it comes first)
\* whose Failed_Row_ID is far from the others; labels start at `first`
AnomalyInput(base, far, gap, lead, first) ==
    LET ordinary == [i \in 1..base |-> [v |-> NumText(0), r |-> NumText(7)]]
        outlier == IF far > 0 THEN <<[v |-> NumText(far), r |-> NumText(7)]>> ELSE << >>
        incomplete == IF gap = "none" THEN << >>
                      ELSE <<[v |-> IF gap = "null" THEN NoValue ELSE JunkText,
                              r |-> NumText(100)]>>
        rows == IF lead THEN incomplete \o ordinary \o outlier
                ELSE ordinary \o outlier \o incomplete
    IN [columns |-> CANDIDATE_NUMERIC_COLS,
        rows |-> [i \in 1..Len(rows) |-> FailedValueRow(first + i - 1, rows[i].v, rows[i].r)]]

InitAnomaly ==
    /\ AppStart
    /\ environ = NoEnviron
    /\ \E base \in 0..MaxBase, far \in {0, 7, 100}, gap \in {"none", "null", "junk"},
          lead \in BOOLEAN, first \in {0, 3} :
        /\ gap = "none" => ~lead
        /\ page_df = AnomalyInput(base, far, gap, lead, first)
    /\ outcome = NoOutcome

NextAnomaly == DetectAnomalies

SpecAnomaly == InitAnomaly /\ [][NextAnomaly]_vars

\* the labels of the rows with a value in every selected column
CompleteLabels(d, cols) ==
    {d.rows[i].idx : i \in {j \in 1..Len(d.rows) : \A c \in cols : d.rows[j][c].kind = "number"}}

\* C20: under both detection methods a row with a null in a selected column
\* is neither scored nor flagged: the flagged rows are among the rows whose
\* selected columns are all non-null, and the excluded rows are absent from
\* the result mask rather than present as not flagged.
C20_IncompleteRowsNeitherScoredNorFlagged ==
    (outcome.call = "Detect Anomalies" /\ outcome.result = "content") =>
        /\ DOMAIN outcome.mask = CompleteLabels(page_df, outcome.selected)
        /\ \A i \in 1..Len(outcome.anomalies) :
            /\ outcome.anomalies[i].idx \in CompleteLabels(page_df, outcome.selected)
            /\ outcome.mask[outcome.anomalies[i].idx]

\* the Z-Score method flagged the far row of a table that also has a row
\* without a Failed_Value and a far Failed_Row_ID; that row is not in the mask
C20_Witness ==
    /\ outcome.call = "Detect Anomalies"
    /\ outcome.method = "Z-Score"
    /\ outcome.selected = NumericCols
    /\ Len(outcome.anomalies) = 1
    /\ outcome.anomalies[1].Failed_Value_num = Number(100)
    /\ \E i \in 1..Len(page_df.rows) :
        /\ page_df.rows[i].Failed_Value_num = NotANumber
        /\ page_df.rows[i].Failed_Row_ID_num = Number(100)
        /\ page_df.rows[i].idx \notin DOMAIN outcome.mask

\* the scored rows of the last detection
ScoredRows(d, cols) == DropNa(d, cols)

\* the column has one value in all the scored rows
ConstantOver(d, scored, col) ==
    \A i, j \in scored : d.rows[i][col].v = d.rows[j][col].v

\* C21: under the Z-Score method a selected column whose scored values are
\* all identical flags no row: every flagged row is above the threshold in a
\* selected column that is not constant, so no row is flagged when every
\* selected column is constant.
C21_ConstantColumnFlagsNothing ==
    (outcome.call = "Detect Anomalies" /\ outcome.method = "Z-Score") =>
        LET scored == ScoredRows(page_df, outcome.selected)
            varying == {c \in outcome.selected : ~ConstantOver(page_df, scored, c)}
        IN /\ \A i \in 1..Len(outcome.anomalies) :
                 \E p \in scored :
                    /\ page_df.rows[p].idx = outcome.anomalies[i].idx
                    /\ p \in ZScoreMask(page_df, scored, varying) \cup ZScoreTies(page_df, scored, varying)
           /\ varying = {} => outcome.anomalies = << >>

\* a detection on the Failed_Row_ID column alone, which has the value 7 in
\* each of more than MaxBase scored rows: a result is shown and it is empty
C21_Witness ==
    /\ outcome.call = "Detect Anomalies"
    /\ outcome.method = "Z-Score"
    /\ outcome.selected = {"Failed_Row_ID_num"}
    /\ outcome.result = "content"
    /\ Cardinality(ScoredRows(page_df, outcome.selected)) > MaxBase
    /\ ConstantOver(page_df, ScoredRows(page_df, outcome.selected), "Failed_Row_ID_num")
    /\ \E i \in 1..Len(page_df.rows) : page_df.rows[i].Failed_Row_ID_num = Number(7)
    /\ outcome.anomalies = << >>

----------------------------------------------------------------------------
(* The Z-Score method over one column with several far values, on small    *)
(* tables and on the table of 100 values of test_everything.py             *)

\* the far values a table has at most
MaxOutliers == 5

\* the tight values of the table of 100
TIGHT == 95

OutlierValues == <<-14, 7, 29, 284>>

\* the tight values: all 0 (flat), or 0 and 2 in turn (mean about 1,
\* standard deviation about 1)
TightValue(i, flat) == IF flat \/ i % 2 = 1 THEN 0 ELSE 2

\* the far values, counts[k] times the k-th of OutlierValues
FarValues(counts) ==
    LET F[k \in 0..Len(OutlierValues)] ==
            IF k = 0 THEN << >>
            ELSE F[k - 1] \o [j \in 1..counts[k] |-> OutlierValues[k]]
    IN F[Len(OutlierValues)]

\* a table of `base` tight rows followed by the far rows
ScoresInput(base, flat, counts) ==
    LET far == FarValues(counts)
    IN [columns |-> CANDIDATE_NUMERIC_COLS,
        rows |-> [i \in 1..(base + Len(far)) |->
                    FailedValueRow(i - 1,
                                   NumText(IF i <= base THEN TightValue(i, flat)
                                           ELSE far[i - base]),
                                   NumText(7))]]

InitScores ==
    /\ AppStart
    /\ environ = NoEnviron
    /\ \E base \in (0..MaxBase) \cup {TIGHT}, flat \in BOOLEAN,
          counts \in [1..Len(OutlierValues) -> 0..MaxOutliers] :
        /\ counts[1] + counts[2] + counts[3] + counts[4] <= MaxOutliers
        /\ base = TIGHT => counts[1] + counts[2] + counts[3] + counts[4] = 5
        /\ base + counts[1] + counts[2] + counts[3] + counts[4] > 0
        /\ page_df = ScoresInput(base, flat, counts)
    /\ outcome = NoOutcome

NextScores == Detect("Z-Score")

SpecScores == InitScores /\ [][NextScores]_vars

\* the positions of the tight rows and of the far rows of the table of 100
TightRows == 1..TIGHT

FarRows == (TIGHT + 1)..(TIGHT + 5)

\* the value is further than 10 standard deviations of the tight rows from
\* their mean
FarFromTight(d, x) ==
    LET S == SumOver(d, TightRows, "Failed_Value_num", 1)
        Q == SumOver(d, TightRows, "Failed_Value_num", 2)
    IN (TIGHT * x - S) * (TIGHT * x - S) > 100 * (TIGHT * Q - S * S)

\* the last detection was a Z-Score over the Failed_Value of a table of 95
\* tight values and 5 values offset by more than 10 standard deviations
HundredScored ==
    /\ outcome.call = "Detect Anomalies"
    /\ outcome.method = "Z-Score"
    /\ outcome.selected = {"Failed_Value_num"}
    /\ Len(page_df.rows) = TIGHT + 5
    /\ \A i \in FarRows : FarFromTight(page_df, page_df.rows[i].Failed_Value_num.v)

FlaggedLabels == {outcome.anomalies[i].idx : i \in 1..Len(outcome.anomalies)}

\* C22 (as stated): for a column of 100 values of which 95 lie tightly
\* around a mean and 5 are offset by more than 10 standard deviations of
\* the 95, exactly those 5 rows are flagged.
C22_ExactlyTheFiveFlagged ==
    HundredScored => FlaggedLabels = {page_df.rows[i].idx : i \in FarRows}

\* C22 (amended): none of the 95 is flagged; a far row is flagged exactly
\* when its own z-score over all 100 values exceeds 3; when the five far
\* values are equal, exactly the five are flagged.
C22_TightNeverFlaggedEqualFarFlagged ==
    HundredScored =>
        /\ FlaggedLabels \subseteq {page_df.rows[i].idx : i \in FarRows}
        /\ (\A i, j \in FarRows : page_df.rows[i].Failed_Value_num = page_df.rows[j].Failed_Value_num)
              => FlaggedLabels = {page_df.rows[i].idx : i \in FarRows}

\* the table of 100 with five values 29 after 95 values 0 and 2: the five
\* rows are flagged
C22_Witness ==
    /\ HundredScored
    /\ \A i \in FarRows : page_df.rows[i].Failed_Value_num = Number(29)
    /\ page_df.rows[2].Failed_Value_num = Number(2)
    /\ Len(outcome.anomalies) = 5

\* the number of rows the last Z-Score detection scored
ScoredCount == Cardinality(ScoredRows(page_df, outcome.selected))

ZScoreRan == outcome.call = "Detect Anomalies" /\ outcome.method = "Z-Score"

\* C30 (as stated): under the Z-Score method no row is flagged when 10 or
\* fewer rows are scored, whatever the values.
C30_NothingFlaggedUpToTenRows ==
    (ZScoreRan /\ ScoredCount <= 10) => outcome.anomalies = << >>

\* C30 (amended): no row is flagged when 9 or fewer rows are scored; with
\* exactly 10 scored rows a row is flagged only when its exact z-score is 3
\* or -3 and the floating-point quotient lands above 3.
C30_NothingFlaggedUpToNineRows ==
    ZScoreRan =>
        /\ ScoredCount <= 9 => outcome.anomalies = << >>
        /\ ScoredCount = 10 =>
              \A i \in 1..Len(outcome.anomalies) :
                 \E p \in ZScoreTies(page_df, ScoredRows(page_df, outcome.selected), outcome.selected) :
                    page_df.rows[p].idx = outcome.anomalies[i].idx

\* nine scored rows, eight of them 0 and one 284: a result is shown and no
\* row is flagged
C30_Witness ==
    /\ ZScoreRan
    /\ outcome.selected = {"Failed_Value_num"}
    /\ outcome.result = "content"
    /\ ScoredCount = 9
    /\ page_df.rows[9].Failed_Value_num = Number(284)
    /\ \A i \in 1..8 : page_df.rows[i].Failed_Value_num = Number(0)
    /\ outcome.anomalies = << >>

----------------------------------------------------------------------------
(* The Alert Feed over tables with several rules and run times *)

AlertTables == {<<BLANK, "A", "b", BLANK>>, NULL}

AlertTimes == {TextTime(1), TextTime(2), TextTime(0)}

AlertRules ==
    {<<"No Nulls">>, <<"Unique Values">>, <<"Primary Key Present">>,
     <<"Foreign Key Valid">>, <<"Row Count">>}

\* the tables the feed is shown for: 1..MaxRows records
AlertInput(rows) ==
    [columns |-> RawColumns,
     rows |-> [i \in 1..Len(rows) |->
                 [ResultRow(i - 1, rows[i].t, <<"C">>, rows[i].ts, rows[i].st)
                     EXCEPT !.Rule_Display_Name = rows[i].rule]]]

InitAlerts ==
    /\ AppStart
    /\ environ = NoEnviron
    /\ \E n \in 1..MaxRows :
        \E rows \in [1..n -> [t : AlertTables, ts : AlertTimes,
                              st : {"Failed", "Passed"}, rule : AlertRules]] :
            page_df = AlertInput(rows)
    /\ outcome = NoOutcome

SpecAlerts == InitAlerts /\ [][NextRender]_vars

\* the last script run showed the Alert Feed or its message
AlertsShown == outcome.call = "Alert Feed" /\ outcome.result \in {"content", "message"}

----------------------------------------------------------------------------
(* dq_dashboard.py: the filters of the Validation Dashboard.  page_df is   *)
(* the table fetch_combined_data returned; render works on its own copy.   *)

\* the run dates of the model
Days == {1, 2}

DashboardRow(i, t, c, ts) ==
    [idx |-> i, Table |-> t, Column |-> c, Metric |-> <<"m">>, Rule |-> <<"r">>,
     Status |-> "Failed", Run_Timestamp |-> ts]

DashboardColumns == {"Table", "Column", "Metric", "Rule", "Status", "Run_Timestamp"}

\* the combined tables: 1..MaxRows rows labelled 0..n-1 (ignore_index)
DashboardTables ==
    {[columns |-> DashboardColumns,
      rows |-> [i \in 1..Len(rows) |->
                  DashboardRow(i - 1, rows[i].t, rows[i].c, rows[i].ts)]] :
        rows \in UNION {[1..n -> [t : {<<"a">>, <<"b">>}, c : {<<"C">>, NULL},
                                  ts : {TextTime(1), TextTime(2), TextTime(0)}]] :
                           n \in 1..MaxRows}}

\* sorted(df[col].dropna().unique()): the options of a multiselect
Available(d, col) == {d.rows[i][col] : i \in 1..Len(d.rows)} \ {NULL, NAN}

\* what st.date_input returns: both ends, or the start alone while the user
\* is picking the end
DateRanges ==
    {r \in {<<a, b>> : a \in Days, b \in Days} : r[1] <= r[2]} \cup {<<2>>}

\* mutant: the end date is not included
DateWithin_EndExcluded(day, date_range) ==
    Len(date_range) = 2 => (day >= date_range[1] /\ day < date_range[2])

\* lines 98-103: the run date is in the range, both ends included; no date
\* filter while the range has one end
DateWithin(day, date_range) ==
    Len(date_range) = 2 => (day >= date_range[1] /\ day <= date_range[2])

\* lines 89-103: the positions of the rows that pass the filters
Passing(d, f, date_range) ==
    {i \in 1..Len(d.rows) :
        /\ d.rows[i].Table \in f.table_filter
        /\ d.rows[i].Column \in f.column_filter
        /\ d.rows[i].Metric \in f.metric_filter
        /\ d.rows[i].Rule \in f.rule_filter
        /\ d.rows[i].Status \in f.status_filter
        /\ DateWithin(d.rows[i].Run_Timestamp.t, date_range)}

\* the filter selections over the options of the table
FilterChoices(d) ==
    [table_filter : SUBSET Available(d, "Table"),
     column_filter : SUBSET Available(d, "Column"),
     metric_filter : SUBSET Available(d, "Metric"),
     rule_filter : SUBSET Available(d, "Rule"),
     status_filter : SUBSET Available(d, "Status")]

\* a script run of the Validation Dashboard with some filter selections: the
\* table that is exported and the detailed view, sorted by time
DashboardFilter ==
    /\ \E df_copy \in {Parsed(page_df)} :
        \E f \in FilterChoices(df_copy), date_range \in DateRanges :
          \E passing \in {Passing(df_copy, f, date_range)} :
            \E o \in TimeOrdersOf(df_copy, passing) :
                outcome' = [call |-> "Validation Dashboard", given |-> page_df,
                            filters |-> f, date_range |-> date_range,
                            result |-> IF passing = {} THEN "message" ELSE "content",
                            exported |-> RowsAt(df_copy.rows, passing),
                            displayed |-> [i \in DOMAIN o |-> df_copy.rows[o[i]]]]
    /\ UNCHANGED <<app, environ, page_df>>

InitDashboard ==
    /\ AppStart
    /\ environ = NoEnviron
    /\ page_df \in DashboardTables
    /\ outcome = NoOutcome

NextDashboard == DashboardFilter

SpecDashboard == InitDashboard /\ [][NextDashboard]_vars

\* the labels of the rows of the loaded table that the selections admit
Admitted(d, f, date_range) ==
    {d.rows[i].idx : i \in {j \in 1..Len(d.rows) :
        /\ d.rows[j].Table \in f.table_filter
        /\ d.rows[j].Column \in f.column_filter
        /\ d.rows[j].Metric \in f.metric_filter
        /\ d.rows[j].Rule \in f.rule_filter
        /\ d.rows[j].Status \in f.status_filter
        /\ d.rows[j].Run_Timestamp.t > 0
        /\ Len(date_range) = 2 =>
              (date_range[1] <= d.rows[j].Run_Timestamp.t
               /\ d.rows[j].Run_Timestamp.t <= date_range[2])}}

\* C24 as stated: the displayed and the exported rows are exactly the loaded
\* rows whose Table, Column, Metric, Rule and Status are each among the
\* selected values and whose run date lies within the selected dates, so no
\* row dated before the selected start date is displayed or exported.
C24_RowsWithinSelectedDates ==
    outcome.call = "Validation Dashboard" =>
        /\ page_df = outcome.given
        /\ {outcome.exported[i].idx : i \in 1..Len(outcome.exported)}
              \subseteq Admitted(page_df, outcome.filters, <<outcome.date_range[1], 2>>)
        /\ \A i \in 1..Len(outcome.displayed) :
              outcome.displayed[i].Run_Timestamp.t >= outcome.date_range[1]

\* C24, amended: the dashboard filters are a pure filter: the displayed and
\* the exported rows are exactly the loaded rows with a run time whose
\* Table, Column, Metric, Rule and Status are each among the selected values
\* and, once both ends of the date range are selected, whose run date lies
\* in the range, both end dates included (while only the start date is
\* selected, no date filter applies); the loaded table is not changed.
C24_FiltersArePureFilter ==
    outcome.call = "Validation Dashboard" =>
        /\ page_df = outcome.given
        /\ {outcome.exported[i].idx : i \in 1..Len(outcome.exported)}
              = Admitted(page_df, outcome.filters, outcome.date_range)
        /\ {outcome.displayed[i].idx : i \in 1..Len(outcome.displayed)}
              = Admitted(page_df, outcome.filters, outcome.date_range)
        /\ Len(outcome.exported) = Cardinality(Admitted(page_df, outcome.filters, outcome.date_range))
        /\ Len(outcome.displayed) = Len(outcome.exported)
        /\ \A i \in 1..Len(outcome.exported) :
              LET loaded == RowLabelled(page_df, outcome.exported[i].idx)
              IN /\ outcome.exported[i].Table = loaded.Table
                 /\ outcome.exported[i].Column = loaded.Column
                 /\ outcome.exported[i].Metric = loaded.Metric
                 /\ outcome.exported[i].Status = loaded.Status

\* two loaded rows of table a on days 1 and 2 and the range from day 1 to
\* day 2 with every value selected: both rows are shown, the later first
C24_Witness ==
    /\ outcome.call = "Validation Dashboard"
    /\ outcome.date_range = <<1, 2>>
    /\ Len(page_df.rows) = 2
    /\ page_df.rows[1].Run_Timestamp = TextTime(1)
    /\ page_df.rows[2].Run_Timestamp = TextTime(2)
    /\ Len(outcome.exported) = 2
    /\ outcome.displayed[1].idx = 1
    /\ outcome.displayed[2].idx = 0

----------------------------------------------------------------------------
(* Properties of the ledger's fields *)

\* C25: in every reachable ledger state, after any imports, row edits and
\* bulk applies, the Action_Status of every ledger entry is one of the eight
\* defined statuses.
C25_StatusAlwaysDefined ==
    \A i \in 1..Len(action_tracker) : action_tracker[i].Action_Status \in StatusSet

\* after an import, a bulk apply that closed and assigned an entry, and a row
\* edit that set another entry's status to Verified
C25_Witness ==
    /\ last_op.op = "RowEdit"
    /\ last_op.col = "Action_Status"
    /\ last_op.val = "Verified"
    /\ \E i, j \in 1..Len(action_tracker) :
          /\ action_tracker[i].idx = last_op.row
          /\ action_tracker[i].Action_Status = "Verified"
          /\ action_tracker[j].Action_Status = "Closed"
          /\ action_tracker[j].Assignee # ""

\* the columns of an entry that identify the failed record
RECORD_COLS == {"Table", "Column", "Rule_Display_Name", "Failed_Row_ID", "Failed_Value"}

\* C26: row edits and bulk applies change only Action_Status, Assignee and
\* Notes: the Table, Column, Rule_Display_Name, Failed_Row_ID and
\* Failed_Value of an entry of the ledger are changed by no row edit, bulk
\* apply or later import.
C26_RecordColumnsNeverChanged ==
    [][last_op'.op \in {"RowEdit", "BulkApply", "Import"} =>
        /\ Len(action_tracker') >= Len(action_tracker)
        /\ \A i \in 1..Len(action_tracker) :
              \A c \in RECORD_COLS : action_tracker'[i][c] = action_tracker[i][c]]_vars

\* an import has added an entry to a ledger that held an entry which a bulk
\* apply had assigned and a row edit had given another status
C26_Witness ==
    /\ last_op.op = "Import"
    /\ last_op.size > 0
    /\ Len(action_tracker) > last_op.size
    /\ \E i \in 1..last_op.size :
          /\ action_tracker[i].Assignee # ""
          /\ action_tracker[i].Action_Status \notin {"Open", "Resolved"}

\* C28: after Clear Resolved has removed an entry, a later import whose
\* fetched set contains that entry's key adds the entry again, with status
\* Open and empty Assignee and Notes.
C28_ClearedEntryIsReimported ==
    [][(last_op.op = "ClearResolved" /\ last_op'.op = "Import") =>
        \A k \in last_op.sel \cap KeysOf(last_op'.fetched) :
            \E j \in 1..Len(action_tracker') :
                /\ KeyOf(action_tracker'[j]) = k
                /\ action_tracker'[j].Action_Status = "Open"
                /\ action_tracker'[j].Assignee = ""
                /\ action_tracker'[j].Notes = ""]_vars

----------------------------------------------------------------------------
(* Properties of the automatic refresh *)

\* the script run that handled the interaction called the loader of the
\* main table
MainLoaded(op) == "main" \in op.remote \cup op.cached

\* the interactions whose script run reaches the loader only through the
\* "Load Data" step at the top of the script
PLAIN_RUNS == {"Render", "DashboardRender", "SetRefreshMode"}

\* the session holds no table, or the interval has been exceeded, or the
\* scheduled time has come and no load has happened since
LoadDue ==
    \/ ~df.present
    \/ /\ refresh_mode = "Interval-Based"
       /\ now - last_refresh > refresh_interval * 60
    \/ /\ refresh_mode = "Specific Date/Time"
       /\ specific_refresh_datetime.set
       /\ now >= specific_refresh_datetime.at
       /\ last_refresh < specific_refresh_datetime.at

----------------------------------------------------------------------------
(* The call sites of sql.connect with explicit credentials: what each      *)
(* passes to the connector, if it gets as far as connecting                *)

NotConnected ==
    [opened |-> FALSE, server_hostname |-> << >>, http_path |-> << >>,
     access_token |-> << >>]

\* sql.connect(server_hostname=..., http_path=..., access_token=...)
Connected(server_hostname, http_path, access_token) ==
    [opened |-> TRUE, server_hostname |-> server_hostname, http_path |-> http_path,
     access_token |-> access_token]

\* load_data_from_databricks: the explicit branch (the platform branch
\* connects without credentials)
LoadConnects(e) ==
    LET connection_config == get_connection_config(e)
        params == connection_config.connection_params
    IN IF connection_config.use_automatic_auth \/ connection_config.requires_setup
       THEN NotConnected
       ELSE IF ~ /\ Truthy(params.server_hostname)
                 /\ Truthy(params.http_path)
                 /\ Truthy(params.access_token)
       THEN NotConnected
       ELSE Connected(params.server_hostname, params.http_path, params.access_token)

\* fetch_failed_records and fetch_combined_data: get_databricks_connection_params
\* strips the scheme, checks the three values and raises when one is empty
FetchConnects(e) ==
    IF ParamsMissing(e) THEN NotConnected
    ELSE Connected(WithoutScheme(e.DATABRICKS_HOST), e.DATABRICKS_HTTP_PATH,
                   e.DATABRICKS_TOKEN)

\* deploy_for_client._test_databricks_connection
test_databricks_connection(e) ==
    LET host == WithoutScheme(e.DATABRICKS_HOST)
        token == e.DATABRICKS_TOKEN
        http_path == e.DATABRICKS_HTTP_PATH
    IN IF ~(Truthy(host) /\ Truthy(token) /\ Truthy(http_path))
       THEN NotConnected
       ELSE Connected(host, http_path, token)

\* setup_wizard._validate_and_save_config, up to the connection: the form
\* fields are checked, the scheme is added to the URL if it lacks it and
\* removed again for the host name
validate_and_save_config(workspace_url, access_token, http_path, default_schema) ==
    IF ~(Truthy(workspace_url) /\ Truthy(access_token) /\ Truthy(http_path)
           /\ Truthy(default_schema))
    THEN NotConnected
    ELSE LET url == IF Head(workspace_url) # SCHEME
                    THEN <<SCHEME>> \o workspace_url ELSE workspace_url
         IN Connected(WithoutScheme(url), http_path, access_token)

ConnectionSites ==
    {"load_data_from_databricks", "fetch_failed_records", "fetch_combined_data",
     "_test_databricks_connection", "_validate_and_save_config"}

\* what the setup wizard's form can hold
WizardForms ==
    [workspace_url : HostValues, access_token : SecretValues,
     http_path : SecretValues, default_schema : SecretValues]

NoForm ==
    [workspace_url |-> << >>, access_token |-> << >>, http_path |-> << >>,
     default_schema |-> << >>]

ConnectionAt(site, e, form) ==
    IF site = "load_data_from_databricks" THEN LoadConnects(e)
    ELSE IF site \in {"fetch_failed_records", "fetch_combined_data"} THEN FetchConnects(e)
    ELSE IF site = "_test_databricks_connection" THEN test_databricks_connection(e)
    ELSE validate_and_save_config(form.workspace_url, form.access_token,
                                  form.http_path, form.default_schema)

\* one of the call sites runs up to its sql.connect
OpenConnection ==
    /\ \E site \in ConnectionSites :
        \E form \in (IF site = "_validate_and_save_config" THEN WizardForms ELSE {NoForm}) :
           outcome' = [call |-> "sql.connect", site |-> site, form |-> form,
                       connection |-> ConnectionAt(site, environ, form)]
    /\ UNCHANGED <<app, environ, page_df>>

NextConnect == OpenConnection

SpecConnect == InitEnv /\ [][NextConnect]_vars

\* C29: no connection with explicit credentials is opened with an empty
\* host, token or HTTP path: at every call site (main table load, tracker
\* fetch, dashboard fetch, deployment connection test, setup wizard
\* validation) the three parameters are non-empty when sql.connect is called.
C29_NoConnectionWithEmptyParameter ==
    (outcome.call = "sql.connect" /\ outcome.connection.opened) =>
        /\ Truthy(outcome.connection.server_hostname)
        /\ Truthy(outcome.connection.http_path)
        /\ Truthy(outcome.connection.access_token)

====
